---- MODULE Spec2Model ----
(***************************************************************************)
(* Model of the trading loop of src/src/main.rs and src/src/executor.rs:   *)
(*   - the order sizing resolver adjust_trade_quantity and the quantize_*  *)
(*     primitives (specification SpecQty),                                 *)
(*   - the account snapshot cell, get_account_info and the background      *)
(*     account_stream_loop (specification SpecAcct),                       *)
(*   - one run_portfolio_cycle with its three phases (SpecCycle).          *)
(* f64 quantities are modelled as exact rationals [n, d] in lowest terms.  *)
(***************************************************************************)
EXTENDS Integers, Naturals, Sequences, FiniteSets, TLC

VARIABLES
    qIn,        \* arguments of the adjust_trade_quantity call under study
    qOut,       \* its result: Pending before the call, None or Some(qty)
    onceCell,   \* ACCOUNT_STREAM: "Empty" or "Set" (the handle is published)
    initHolder, \* the caller running the OnceCell init closure, or NoCaller
    sender,     \* value of the watch channel: None or Some(AccountInfo)
    handles,    \* number of AccountStreamHandle values created
    spawned,    \* number of account_stream_loop tasks spawned
    readerWrites, \* number of writes to sender made inside a get_account_info call
    caller,     \* per caller of get_account_info: its position and call-local data
    stream,     \* the account_stream_loop task: position, backoff, current sleep
    cycles,     \* number of ticks of main's ticker that started a cycle
    cyclePc,    \* main loop / run_portfolio_cycle: where the orchestrator stands
    symbols_cache, \* main's symbols_cache: symbol -> Absent or (account, position, use_cache)
    exPos,      \* the exchange: per symbol the held LONG and SHORT amounts
    p1,         \* per symbol the analyze_symbol future of the running cycle
    plan,       \* the running cycle's allocation plan and the futures built from it
    t3          \* per symbol the execute_symbol_cycle future of the running cycle

qtyVars == <<qIn, qOut>>
acctVars == <<onceCell, initHolder, sender, handles, spawned, readerWrites, caller, stream>>
cycleVars == <<cycles, cyclePc, symbols_cache, exPos, p1, plan, t3>>
vars == <<qIn, qOut, onceCell, initHolder, sender, handles, spawned, readerWrites,
          caller, stream, cycles, cyclePc, symbols_cache, exPos, p1, plan, t3>>

(***************************************************************************)
(* Bounds of the input domains.                                            *)
(***************************************************************************)
QDen == 2
MaxQ == 3
MaxBal == 2
MaxPrice == 2
MaxNotional == 1
EpsDen == 1000

(***************************************************************************)
(* Exact rational arithmetic standing for f64.                             *)
(***************************************************************************)
RECURSIVE GCD(_, _)
GCD(a, b) == IF b = 0 THEN a ELSE GCD(b, a % b)

Abs(x) == IF x < 0 THEN -x ELSE x

R(n, d) ==
    LET g == GCD(Abs(n), d)
    IN  [n |-> n \div g, d |-> d \div g]

Zero == R(0, 1)
FromInt(k) == R(k, 1)
Lt(a, b) == a.n * b.d < b.n * a.d
Le(a, b) == a.n * b.d <= b.n * a.d
Gt(a, b) == Lt(b, a)
Ge(a, b) == Le(b, a)
RMin(a, b) == IF Lt(b, a) THEN b ELSE a
RMax(a, b) == IF Lt(a, b) THEN b ELSE a
Add(a, b) == R(a.n * b.d + b.n * a.d, a.d * b.d)
Sub(a, b) == R(a.n * b.d - b.n * a.d, a.d * b.d)
Mul(a, b) == R(a.n * b.n, a.d * b.d)
Div(a, b) == IF b.n > 0 THEN R(a.n * b.d, a.d * b.n) ELSE R(-(a.n * b.d), a.d * (-b.n))
Floor(a) == a.n \div a.d
Ceil(a) == -((-a.n) \div a.d)
IsMultiple(v, s) == (v.n * s.d) % (v.d * s.n) = 0

\* f64::EPSILON: a positive value below the resolution of every modelled quantity
EPSILON == R(1, EpsDen)

None == [tag |-> "None"]
Some(v) == [tag |-> "Some", v |-> v]
Pending == [tag |-> "Pending"]
NoInput == [tag |-> "NoInput"]

\* no resolver call is under study
QtyIdle ==
    /\ qIn = NoInput
    /\ qOut = Pending

(***************************************************************************)
(* executor.rs: quantize_down / quantize_up / quantize_price               *)
(***************************************************************************)
quantize_down(value, step) ==
    IF Le(step, Zero) THEN value
    ELSE RMax(Mul(FromInt(Floor(Div(value, step))), step), Zero)

quantize_up(value, step) ==
    IF Le(step, Zero) THEN value
    ELSE RMax(Mul(FromInt(Ceil(Div(value, step))), step), Zero)

\* f64::round rounds half away from zero
Round(a) ==
    IF a.n >= 0 THEN (2 * a.n + a.d) \div (2 * a.d)
    ELSE -((2 * (-a.n) + a.d) \div (2 * a.d))

quantize_price(price, tick_size) ==
    IF Le(tick_size, Zero) THEN price
    ELSE RMax(Mul(FromInt(Round(Div(price, tick_size))), tick_size), Zero)

(***************************************************************************)
(* main.rs: adjust_trade_quantity, one definition per numbered step        *)
(***************************************************************************)
EffectiveMax(allocated_max, allocated_balance, price) ==
    IF Gt(allocated_balance, Zero) /\ Gt(price, Zero)
    THEN LET balance_limit == Div(allocated_balance, price)
         IN  IF Gt(balance_limit, Zero) THEN RMin(allocated_max, balance_limit)
             ELSE allocated_max
    ELSE allocated_max

DefaultQty(desired, c) ==
    LET qty == RMax(desired, Zero)
    IN  IF qty = Zero THEN RMax(c.min_qty, c.step_size) ELSE qty

ClampMax(qty, effective_max) ==
    IF Gt(qty, effective_max) THEN effective_max ELSE qty

RaiseToMinQty(qty, c) ==
    IF Lt(qty, c.min_qty) THEN quantize_up(c.min_qty, c.step_size) ELSE qty

CapMaxQty(qty, c) ==
    IF c.max_qty.tag = "Some" /\ Gt(qty, c.max_qty.v)
    THEN quantize_down(c.max_qty.v, c.step_size)
    ELSE qty

\* step 8 left out
RaiseToNotional_skip(qty, price, c) == qty

RaiseToNotional(qty, price, c) ==
    IF Gt(c.min_notional, Zero) /\ Gt(price, Zero)
    THEN LET required == quantize_up(Div(c.min_notional, price), c.step_size)
         IN  IF Gt(required, qty) THEN required ELSE qty
    ELSE qty

\* mutant: the second clamp against effective_max is left out
ReclampMax_skip(qty, effective_max, c) == qty

ReclampMax(qty, effective_max, c) ==
    IF Gt(qty, effective_max) THEN quantize_down(effective_max, c.step_size) ELSE qty

\* the final notional check left out
NotionalTooSmall_off(qty, price, c) == FALSE

NotionalTooSmall(qty, price, c) ==
    /\ Gt(c.min_notional, Zero)
    /\ Gt(price, Zero)
    /\ Lt(Add(Mul(qty, price), EPSILON), c.min_notional)

adjust_trade_quantity(desired, allocated_max, allocated_balance, price, c) ==
    IF Le(allocated_max, Zero) THEN None
    ELSE
    LET effective_max == EffectiveMax(allocated_max, allocated_balance, price)
        q3 == DefaultQty(desired, c)
        q4 == ClampMax(q3, effective_max)
        q5 == quantize_down(q4, c.step_size)
        q6 == RaiseToMinQty(q5, c)
        q7 == CapMaxQty(q6, c)
        q8 == RaiseToNotional(q7, price, c)
        q9 == CapMaxQty(ReclampMax(q8, effective_max, c), c)
    IN  IF Lt(q9, c.min_qty) THEN None
        ELSE IF NotionalTooSmall(q9, price, c) THEN None
        ELSE IF Le(q9, Zero) THEN None
        ELSE Some(q9)


(***************************************************************************)
(* executor.rs: the account snapshot cell (ACCOUNT_STREAM, a OnceCell of a *)
(* handle owning a watch channel), get_account_info and the background     *)
(* task account_stream_loop / establish_account_stream.                    *)
(***************************************************************************)
Callers == {"r1", "r2"}
NoCaller == "none"
MaxSnap == 2
MaxElapsed == 4
MaxStreak == 4
ACCOUNT_WAIT_SECS == 3
BACKOFF_BASE == 5
BACKOFF_CAP == 60
NORMAL_END_PAUSE == 1

Min2(a, b) == IF a < b THEN a ELSE b

\* AccountInfo {totalWalletBalance, availableBalance}
AccountInfo(k) == [totalWalletBalance |-> k, availableBalance |-> k]
Snapshots == { AccountInfo(k) : k \in 1..MaxSnap }
Err == [tag |-> "Err"]
\* outcomes of fetch_account_info_rest
RestResults == {Err} \cup { Some(s) : s \in Snapshots }

IdleCaller == [pc |-> "idle", seen |-> None, ret |-> Pending, net |-> 0,
               elapsed |-> 0, waited |-> 0]
NotSpawned == [pc |-> "none", backoff |-> BACKOFF_BASE, result |-> "none",
               sleepFor |-> 0, streak |-> 0, kaFailed |-> FALSE]

AcctIdle ==
    /\ onceCell = "Empty"
    /\ initHolder = NoCaller
    /\ sender = None
    /\ handles = 0
    /\ spawned = 0
    /\ readerWrites = 0
    /\ caller = [c \in Callers |-> IdleCaller]
    /\ stream = NotSpawned

\* mutant: the cached value is ignored and the call always waits for a change
SubscribeAndBorrow_alwaysWait(rec, cellValue) == [rec EXCEPT !.pc = "wait", !.waited = 0]

\* get_account_info lines 344-348 and the entry of the timed wait: subscribe,
\* return the borrowed value when there is one, else start waiting
SubscribeAndBorrow(rec, cellValue) ==
    IF cellValue.tag = "Some"
    THEN [rec EXCEPT !.pc = "done", !.ret = cellValue]
    ELSE [rec EXCEPT !.pc = "wait", !.waited = 0]

\* mutant: no init permit, every caller that finds the cell empty runs the closure
Call_noPermit(c) ==
    /\ caller[c].pc = "idle"
    /\ LET rec == [IdleCaller EXCEPT !.seen = IF onceCell = "Set" THEN sender ELSE None]
       IN  IF onceCell = "Set"
           THEN /\ caller' = [caller EXCEPT ![c] = SubscribeAndBorrow(rec, sender)]
                /\ UNCHANGED initHolder
           ELSE /\ caller' = [caller EXCEPT ![c] = [rec EXCEPT !.pc = "init_rest", !.net = 1]]
                /\ initHolder' = c
    /\ UNCHANGED <<onceCell, sender, handles, spawned, readerWrites, stream>>
    /\ UNCHANGED qtyVars
    /\ UNCHANGED cycleVars

\* get_account_info is called: get_or_try_init on a set cell returns the handle
\* at once; on an empty cell the caller takes the init permit and runs
\* AccountStreamHandle::new, or queues behind the caller that holds it
Call(c) ==
    /\ caller[c].pc = "idle"
    /\ LET rec == [IdleCaller EXCEPT !.seen = IF onceCell = "Set" THEN sender ELSE None]
       IN  IF onceCell = "Set"
           THEN /\ caller' = [caller EXCEPT ![c] = SubscribeAndBorrow(rec, sender)]
                /\ UNCHANGED initHolder
           ELSE IF initHolder = NoCaller
           THEN /\ caller' = [caller EXCEPT ![c] = [rec EXCEPT !.pc = "init_rest", !.net = 1]]
                /\ initHolder' = c
           ELSE /\ caller' = [caller EXCEPT ![c] = [rec EXCEPT !.pc = "init_wait"]]
                /\ UNCHANGED initHolder
    /\ UNCHANGED <<onceCell, sender, handles, spawned, readerWrites, stream>>
    /\ UNCHANGED qtyVars
    /\ UNCHANGED cycleVars

\* spawn_account_stream: the task starts account_stream_loop with backoff 5 s
SpawnedStream == [NotSpawned EXCEPT !.pc = "listen_key"]

\* AccountStreamHandle::new after its REST query returned r: seed the channel on
\* Ok, spawn the stream task, publish the handle; the caller goes on in
\* get_account_info without suspending
NewHandle(c, r) ==
    /\ caller[c].pc = "init_rest"
    /\ initHolder = c
    /\ sender' = IF r.tag = "Some" THEN r ELSE sender
    /\ readerWrites' = IF r.tag = "Some" THEN readerWrites + 1 ELSE readerWrites
    /\ spawned' = spawned + 1
    /\ stream' = SpawnedStream
    /\ handles' = handles + 1
    /\ onceCell' = "Set"
    /\ initHolder' = NoCaller
    /\ caller' = [caller EXCEPT ![c] = SubscribeAndBorrow(caller[c], sender')]
    /\ UNCHANGED qtyVars
    /\ UNCHANGED cycleVars

\* a caller queued in get_or_try_init finds the cell set by the holder
InitWake(c) ==
    /\ caller[c].pc = "init_wait"
    /\ onceCell = "Set"
    /\ caller' = [caller EXCEPT ![c] = SubscribeAndBorrow(caller[c], sender)]
    /\ UNCHANGED <<onceCell, initHolder, sender, handles, spawned, readerWrites, stream>>
    /\ UNCHANGED qtyVars
    /\ UNCHANGED cycleVars

\* receiver.changed() resolves: every write stores Some, so the borrow returns it
WaitWake(c) ==
    /\ caller[c].pc = "wait"
    /\ sender.tag = "Some"
    /\ caller' = [caller EXCEPT ![c] = [@ EXCEPT !.pc = "done", !.ret = sender]]
    /\ UNCHANGED <<onceCell, initHolder, sender, handles, spawned, readerWrites, stream>>
    /\ UNCHANGED qtyVars
    /\ UNCHANGED cycleVars

\* mutant: the timer is armed one second too long
TimeoutFires_late(c) ==
    /\ caller[c].pc = "wait"
    /\ sender = None
    /\ caller[c].waited >= ACCOUNT_WAIT_SECS + 1

\* timeout(Duration::from_secs(3), wait_for_update) elapses
TimeoutFires(c) ==
    /\ caller[c].pc = "wait"
    /\ sender = None
    /\ caller[c].waited >= ACCOUNT_WAIT_SECS

Timeout(c) ==
    /\ TimeoutFires(c)
    /\ caller' = [caller EXCEPT ![c] = [@ EXCEPT !.pc = "fallback", !.net = @ + 1]]
    /\ UNCHANGED <<onceCell, initHolder, sender, handles, spawned, readerWrites, stream>>
    /\ UNCHANGED qtyVars
    /\ UNCHANGED cycleVars

\* mutant: the fallback result is also stored in the channel
FallbackEffect_caches(c, r) ==
    /\ caller' = [caller EXCEPT ![c] = [@ EXCEPT !.pc = "done", !.ret = r]]
    /\ sender' = IF r.tag = "Some" THEN r ELSE sender
    /\ readerWrites' = IF r.tag = "Some" THEN readerWrites + 1 ELSE readerWrites

\* the fallback fetch_account_info_rest returns r, which is the call's result
FallbackEffect(c, r) ==
    /\ caller' = [caller EXCEPT ![c] = [@ EXCEPT !.pc = "done", !.ret = r]]
    /\ UNCHANGED <<sender, readerWrites>>

Fallback(c, r) ==
    /\ caller[c].pc = "fallback"
    /\ FallbackEffect(c, r)
    /\ UNCHANGED <<onceCell, initHolder, handles, spawned, stream>>
    /\ UNCHANGED qtyVars
    /\ UNCHANGED cycleVars

\* the call has returned; the caller may call again
Return(c) ==
    /\ caller[c].pc = "done"
    /\ caller' = [caller EXCEPT ![c] = IdleCaller]
    /\ UNCHANGED <<onceCell, initHolder, sender, handles, spawned, readerWrites, stream>>
    /\ UNCHANGED qtyVars
    /\ UNCHANGED cycleVars

\* one second passes for every call suspended at an await; a ready wake-up or an
\* expired timer runs before more time passes
Ready(c) ==
    \/ caller[c].pc = "wait" /\ sender.tag = "Some"
    \/ TimeoutFires(c)
    \/ caller[c].pc = "init_wait" /\ onceCell = "Set"

Suspended(c) == caller[c].pc \in {"init_wait", "init_rest", "wait", "fallback"}

Tick ==
    /\ \E c \in Callers : Suspended(c)
    /\ \A c \in Callers : ~Ready(c)
    /\ caller' = [c \in Callers |->
                    IF Suspended(c)
                    THEN [caller[c] EXCEPT
                            !.elapsed = Min2(@ + 1, MaxElapsed),
                            !.waited = IF caller[c].pc = "wait" THEN @ + 1 ELSE @]
                    ELSE caller[c]]
    /\ UNCHANGED <<onceCell, initHolder, sender, handles, spawned, readerWrites, stream>>
    /\ UNCHANGED qtyVars
    /\ UNCHANGED cycleVars

(***************************************************************************)
(* main.rs: the main loop, run_portfolio_cycle, analyze_symbol and         *)
(* execute_symbol_cycle; executor.rs: execute_decision, place_order and    *)
(* get_position against an exchange that holds LONG and SHORT amounts.     *)
(***************************************************************************)
Symbols == {"A", "B"}                 \* config.trade_symbols
UnknownSymbol == "X"                  \* a symbol the coordinator may invent
AllocSymbols == Symbols \cup {UnknownSymbol}
\* largest amount the exchange lets one side of a symbol hold
MaxHeld == 1
\* longest allocation list a coordinator reply holds
MaxAllocs == 2
\* ticks of the main loop's ticker that are explored
MaxCycles == 2
\* max_retries of fetch_klines
MAX_KLINE_RETRIES == 3

\* config.max_position and the constraints fetched at startup for each symbol
max_position == FromInt(1)
constraints_map ==
    [s \in Symbols |->
        [step_size |-> FromInt(1), min_qty |-> FromInt(1), max_qty |-> None,
         min_notional |-> Zero, tick_size |-> FromInt(1)]]

Absent == [tag |-> "Absent"]
Entry(account, position, use_cache) ==
    [tag |-> "Entry", account |-> account, position |-> position, use_cache |-> use_cache]
IsSome(o) == o.tag = "Some"

Position(side, amount) == [side |-> side, amount |-> amount]
Flat == [long |-> Zero, short |-> Zero]

\* a record of the exchange's positionRisk answer; positionAmt is the number the
\* string holds, or Unparsed for a string that is no number
PositionRisk(symbol, positionSide, positionAmt) ==
    [symbol |-> symbol, positionSide |-> positionSide, positionAmt |-> positionAmt]
Unparsed == [tag |-> "Unparsed"]
\* pos.positionAmt.parse().unwrap_or(0.0)
ParseAmount(positionAmt) == IF positionAmt = Unparsed THEN Zero ELSE positionAmt
RAbs(a) == R(Abs(a.n), a.d)
\* the amount below which get_position takes a record for flat
POSITION_EPSILON == R(1, 10000)

\* executor.rs 276-293: the candidate built from a record that is kept
Candidate(pos) ==
    LET amount == ParseAmount(pos.positionAmt)
        side == CASE pos.positionSide = "LONG" -> "Long"
                  [] pos.positionSide = "SHORT" -> "Short"
                  [] OTHER -> IF Gt(amount, Zero) THEN "Long" ELSE "Short"
    IN  Position(side, RAbs(amount))

\* mutant: a later record of equal amount replaces the earlier one
Replace_onTie(best_position, candidate) ==
    IF best_position = None THEN TRUE
    ELSE Ge(candidate.amount, best_position.v.amount)

\* executor.rs 295-298
Replace(best_position, candidate) ==
    IF best_position = None THEN TRUE
    ELSE Gt(candidate.amount, best_position.v.amount)

\* the loop of executor.rs 266-303 from record i on
RECURSIVE BestPosition(_, _, _, _)
BestPosition(positions, symbol, i, best_position) ==
    IF i > Len(positions) THEN best_position
    ELSE LET pos == positions[i] IN
         IF pos.symbol # symbol
         THEN BestPosition(positions, symbol, i + 1, best_position)
         ELSE IF Lt(RAbs(ParseAmount(pos.positionAmt)), POSITION_EPSILON)
         THEN BestPosition(positions, symbol, i + 1, best_position)
         ELSE BestPosition(positions, symbol, i + 1,
                 IF Replace(best_position, Candidate(pos))
                 THEN Some(Candidate(pos)) ELSE best_position)

\* get_position on the records the exchange answered with
get_position_of(positions, symbol) == BestPosition(positions, symbol, 1, None)

\* get_position against the exchange of the cycle model: the exchange answers
\* with the LONG and the SHORT record of the symbol (a SHORT amount is
\* negative) in an order of its choice
get_position(ex) ==
    LET long == PositionRisk("S", "LONG", ex.long)
        short == PositionRisk("S", "SHORT", Sub(Zero, ex.short))
    IN  { get_position_of(positions, "S") : positions \in {<<long, short>>, <<short, long>>} }

\* account snapshots of a cycle, named by the call that returned them
PreTrade == [q |-> "pre"]
PostTrade == [q |-> "post"]

NoAnalysis == [pc |-> "none", retries |-> 0, use_cache |-> FALSE, position |-> None]
NoPlan == [tag |-> "NoPlan"]
NoTask == [pc |-> "none", max_amount |-> Zero, allocated_balance |-> Zero,
           signal |-> "Hold", amount |-> Zero, qty |-> Zero, orders |-> <<>>,
           logged |-> None, traded |-> FALSE, error |-> "none",
           account_snapshot |-> None, position_snapshot |-> None]

CycleIdle ==
    /\ cycles = 0
    /\ cyclePc = "idle"
    /\ symbols_cache = [s \in AllocSymbols |-> Absent]
    /\ exPos = [s \in Symbols |-> Flat]
    /\ p1 = [s \in Symbols |-> NoAnalysis]
    /\ plan = NoPlan
    /\ t3 = [s \in Symbols |-> NoTask]

\* symbols_cache.get(symbol).cloned().unwrap_or((None, None, false))
CacheGet(cache, s) ==
    IF cache[s].tag = "Entry" THEN cache[s] ELSE Entry(None, None, FALSE)

\* ticker.tick() fired: run_portfolio_cycle builds one analyze_symbol future per
\* configured symbol from the cache and awaits them
StartCycle ==
    /\ cyclePc = "idle"
    /\ cycles < MaxCycles
    /\ cycles' = cycles + 1
    /\ cyclePc' = "phase1"
    /\ p1' = [s \in Symbols |->
                LET e == CacheGet(symbols_cache, s)
                IN  [pc |-> "klines", retries |-> 0, use_cache |-> e.use_cache,
                     position |-> IF e.use_cache THEN e.position ELSE None]]
    /\ UNCHANGED <<symbols_cache, exPos, plan, t3>>
    /\ UNCHANGED <<qtyVars, acctVars>>

\* mutant: the Err arm leaves the cache as it is
CacheAfterCycle_kept(pc, cache) == cache

\* main.rs 774-781: the Err arm calls symbols_cache.clear()
CacheAfterCycle(pc, cache) ==
    IF pc = "ret_err" THEN [s \in AllocSymbols |-> Absent] ELSE cache

\* main lines 774-781 on the value run_portfolio_cycle returned
MainLoop ==
    /\ cyclePc \in {"ret_ok", "ret_err"}
    /\ symbols_cache' = CacheAfterCycle(cyclePc, symbols_cache)
    /\ cyclePc' = "idle"
    /\ p1' = [s \in Symbols |-> NoAnalysis]
    /\ plan' = NoPlan
    /\ t3' = [s \in Symbols |-> NoTask]
    /\ UNCHANGED <<cycles, exPos>>
    /\ UNCHANGED <<qtyVars, acctVars>>

(* Phase 1: analyze_symbol *)
\* mutant: an Err of an analysis future is not returned by the join
TryJoinAllErr_swallowed(pc) == pc

\* try_join_all(analysis_futures).await? returns the first Err: where
\* run_portfolio_cycle stands after an analysis future returned Err
TryJoinAllErr(pc) == "ret_err"

\* mutant: the query is skipped also when the cache entry is not usable
AfterKlines_noQuery(a) == [a EXCEPT !.pc = "analyst", !.retries = 0]

\* analyze_symbol after fetch_klines and calculate_indicators succeeded: a cached
\* position is used without a query; the retry counter ends with fetch_klines
AfterKlines(a) ==
    [a EXCEPT !.pc = IF a.use_cache THEN "analyst" ELSE "position", !.retries = 0]

\* fetch_klines: a transport error is retried until the third, a parse error or
\* too few klines fail the task; try_join_all returns the first Err and drops
\* the other futures
FetchKlines(s, outcome) ==
    /\ cyclePc = "phase1"
    /\ p1[s].pc = "klines"
    /\ CASE outcome = "ok" ->
              /\ p1' = [p1 EXCEPT ![s] = AfterKlines(@)]
              /\ UNCHANGED cyclePc
         [] outcome = "transport" /\ p1[s].retries + 1 < MAX_KLINE_RETRIES ->
              /\ p1' = [p1 EXCEPT ![s].retries = @ + 1]
              /\ UNCHANGED cyclePc
         [] OTHER ->
              /\ p1' = [p1 EXCEPT ![s].pc = "err"]
              /\ cyclePc' = TryJoinAllErr(cyclePc)
    /\ UNCHANGED <<cycles, symbols_cache, exPos, plan, t3>>
    /\ UNCHANGED <<qtyVars, acctVars>>

KlineOutcomes == {"ok", "transport", "parse", "short"}

\* executor::get_position(...).await? in analyze_symbol
AnalysisPosition(s, ok) ==
    /\ cyclePc = "phase1"
    /\ p1[s].pc = "position"
    /\ IF ok
       THEN /\ \E pos \in get_position(exPos[s]) :
                  p1' = [p1 EXCEPT ![s] = [@ EXCEPT !.pc = "analyst", !.position = pos]]
            /\ UNCHANGED cyclePc
       ELSE /\ p1' = [p1 EXCEPT ![s].pc = "err"]
            /\ cyclePc' = TryJoinAllErr(cyclePc)
    /\ UNCHANGED <<cycles, symbols_cache, exPos, plan, t3>>
    /\ UNCHANGED <<qtyVars, acctVars>>

\* multi_agent::market_analyst_analyze(...).await?
MarketAnalyst(s, ok) ==
    /\ cyclePc = "phase1"
    /\ p1[s].pc = "analyst"
    /\ IF ok
       THEN /\ p1' = [p1 EXCEPT ![s].pc = "ok"]
            /\ UNCHANGED cyclePc
       ELSE /\ p1' = [p1 EXCEPT ![s].pc = "err"]
            /\ cyclePc' = TryJoinAllErr(cyclePc)
    /\ UNCHANGED <<cycles, symbols_cache, exPos, plan, t3>>
    /\ UNCHANGED <<qtyVars, acctVars>>

\* mutant: the join returns as soon as one analysis is Ok
AllAnalysesDone_any == \E s \in Symbols : p1[s].pc = "ok"

\* try_join_all(analysis_futures).await returns Ok once every future is Ok
AllAnalysesDone == \A s \in Symbols : p1[s].pc = "ok"

Phase1Join ==
    /\ cyclePc = "phase1"
    /\ AllAnalysesDone
    /\ cyclePc' = "phase2_account"
    /\ UNCHANGED <<cycles, symbols_cache, exPos, p1, plan, t3>>
    /\ UNCHANGED <<qtyVars, acctVars>>

(* Phase 2: account balance and the coordinator's allocation plan *)
\* executor::get_account_info(...).await? at main.rs 477
Phase2Account(ok) ==
    /\ cyclePc = "phase2_account"
    /\ cyclePc' = IF ok THEN "phase2_alloc" ELSE "ret_err"
    /\ UNCHANGED <<cycles, symbols_cache, exPos, p1, plan, t3>>
    /\ UNCHANGED <<qtyVars, acctVars>>

Allocation(symbol, priority, allocated_balance, max_amount_override) ==
    [symbol |-> symbol, priority |-> priority,
     allocated_balance |-> allocated_balance,
     max_amount_override |-> max_amount_override]

\* the allocations a coordinator reply may list for one symbol
AllocationsFor(s) ==
    { Allocation(s, "High", FromInt(1), None),
      Allocation(s, "Skip", FromInt(1), None),
      Allocation(s, "High", Zero, None),
      Allocation(s, "High", FromInt(1), Some(Zero)) }

AllAllocations ==
    UNION { AllocationsFor(s) : s \in Symbols }
    \cup { Allocation(UnknownSymbol, "High", FromInt(1), None) }

\* types::PortfolioStrategy and the mode the operator configured
PortfolioStrategy == {"Balanced", "Aggressive", "Conservative"}
desired_portfolio_strategy == "Balanced"

PortfolioAllocation(allocations, strategy) ==
    [tag |-> "Plan", allocations |-> allocations, strategy |-> strategy]

Plans ==
    { PortfolioAllocation(a, st) :
        a \in UNION { [1..n -> AllAllocations] : n \in 0..MaxAllocs },
        st \in PortfolioStrategy }

\* the coordinator's reply replaced by a plan of the configured mode
ForceStrategy_replan(result) ==
    IF result.strategy # desired_portfolio_strategy
    THEN PortfolioAllocation(<<>>, desired_portfolio_strategy)
    ELSE result

\* main.rs 490-497: a strategy tag other than the configured one is overwritten
ForceStrategy(result) ==
    IF result.strategy # desired_portfolio_strategy
    THEN [result EXCEPT !.strategy = desired_portfolio_strategy]
    ELSE result

\* the cache entry of a symbol that is analysed but not executed
NotExecuted(position) == Entry(None, position, IsSome(position))

\* max_amount of main.rs 561-564
MaxAmount(alloc, c) ==
    LET base == IF IsSome(alloc.max_amount_override)
                THEN alloc.max_amount_override.v ELSE max_position
    IN  IF IsSome(c.max_qty) THEN RMin(base, c.max_qty.v) ELSE base

StartedTask(max_amount, allocated_balance) ==
    [NoTask EXCEPT !.pc = "account", !.max_amount = max_amount,
                   !.allocated_balance = allocated_balance]

\* the loop pass without the priority test of main.rs 532
PlanStep_noSkip(acc, alloc, analyses) ==
    LET s == alloc.symbol IN
    IF s \notin acc.analysis_map
    THEN [acc EXCEPT !.cache[s] = Entry(None, None, FALSE)]
    ELSE
    LET removed == [acc EXCEPT !.analysis_map = @ \ {s}]
        position == analyses[s].position
        skipped == [removed EXCEPT !.cache[s] = NotExecuted(position)]
    IN  IF s \notin DOMAIN constraints_map
        THEN [removed EXCEPT !.cache[s] = Entry(None, None, FALSE)]
        ELSE IF Le(alloc.allocated_balance, Zero) THEN skipped
        ELSE LET c == constraints_map[s]
                 max_amount == MaxAmount(alloc, c)
             IN  IF Le(max_amount, Zero) THEN skipped
                 ELSE IF Gt(c.min_qty, max_amount) THEN skipped
                 ELSE [removed EXCEPT
                          !.tasks[s] = StartedTask(max_amount, alloc.allocated_balance),
                          !.futures = Append(@, s)]

\* mutant: the analysis is looked up with get, not taken out with remove
PlanStep_keepsAnalysis(acc, alloc, analyses) ==
    LET s == alloc.symbol IN
    IF s \notin acc.analysis_map
    THEN [acc EXCEPT !.cache[s] = Entry(None, None, FALSE)]
    ELSE
    LET removed == acc
        position == analyses[s].position
        skipped == [removed EXCEPT !.cache[s] = NotExecuted(position)]
    IN  IF alloc.priority = "Skip" THEN skipped
        ELSE IF s \notin DOMAIN constraints_map
             THEN [removed EXCEPT !.cache[s] = Entry(None, None, FALSE)]
        ELSE IF Le(alloc.allocated_balance, Zero) THEN skipped
        ELSE LET c == constraints_map[s]
                 max_amount == MaxAmount(alloc, c)
             IN  IF Le(max_amount, Zero) THEN skipped
                 ELSE IF Gt(c.min_qty, max_amount) THEN skipped
                 ELSE [removed EXCEPT
                          !.tasks[s] = StartedTask(max_amount, alloc.allocated_balance),
                          !.futures = Append(@, s)]

\* one pass of the loop at main.rs 522-597 over acc = (analysis_map, cache,
\* tasks, futures): futures lists the symbols in the order their futures are
\* pushed to execution_futures
PlanStep(acc, alloc, analyses) ==
    LET s == alloc.symbol IN
    IF s \notin acc.analysis_map
    THEN [acc EXCEPT !.cache[s] = Entry(None, None, FALSE)]
    ELSE
    LET removed == [acc EXCEPT !.analysis_map = @ \ {s}]
        position == analyses[s].position
        skipped == [removed EXCEPT !.cache[s] = NotExecuted(position)]
    IN  IF alloc.priority = "Skip" THEN skipped
        ELSE IF s \notin DOMAIN constraints_map
             THEN [removed EXCEPT !.cache[s] = Entry(None, None, FALSE)]
        ELSE IF Le(alloc.allocated_balance, Zero) THEN skipped
        ELSE LET c == constraints_map[s]
                 max_amount == MaxAmount(alloc, c)
             IN  IF Le(max_amount, Zero) THEN skipped
                 ELSE IF Gt(c.min_qty, max_amount) THEN skipped
                 ELSE [removed EXCEPT
                          !.tasks[s] = StartedTask(max_amount, alloc.allocated_balance),
                          !.futures = Append(@, s)]

RECURSIVE PlanLoop(_, _, _, _)
PlanLoop(allocations, i, acc, analyses) ==
    IF i > Len(allocations) THEN acc
    ELSE PlanLoop(allocations, i + 1, PlanStep(acc, allocations[i], analyses), analyses)

\* the analyses left in analysis_map when the loop is over
AnalysisMapAfter(allocations) ==
    Symbols \ { allocations[i].symbol : i \in 1..Len(allocations) }

\* the plan of the running cycle with the symbols of execution_futures
CyclePlan(portfolio_allocation, futures) ==
    [tag |-> "Plan", allocations |-> portfolio_allocation.allocations,
     strategy |-> portfolio_allocation.strategy, futures |-> futures]

\* multi_agent::portfolio_coordinator_allocate(...).await? and the loop that
\* builds the execution futures
Allocate(result) ==
    /\ cyclePc = "phase2_alloc"
    /\ IF result = Err
       THEN /\ cyclePc' = "ret_err"
            /\ UNCHANGED <<symbols_cache, plan, t3>>
       ELSE LET portfolio_allocation == ForceStrategy(result)
                acc == PlanLoop(portfolio_allocation.allocations, 1,
                          [analysis_map |-> Symbols, cache |-> symbols_cache,
                           tasks |-> [s \in Symbols |-> NoTask], futures |-> <<>>], p1)
            IN  /\ cyclePc' = "phase3"
                /\ plan' = CyclePlan(portfolio_allocation, acc.futures)
                /\ symbols_cache' = acc.cache
                /\ t3' = acc.tasks
    /\ UNCHANGED <<cycles, exPos, p1>>
    /\ UNCHANGED <<qtyVars, acctVars>>

(* Phase 3: execute_symbol_cycle, one future per started task *)
Running(s) == cyclePc = "phase3" /\ t3[s].pc \notin {"none", "ok", "err"}

\* the future returns Err(error)
Failed(t, error) == [t EXCEPT !.pc = "err", !.error = error]

\* an awaited call of the task that is not an order: `?` returns the Err
AwaitStep(s, from, to, ok) ==
    /\ cyclePc = "phase3"
    /\ t3[s].pc = from
    /\ t3' = [t3 EXCEPT ![s] = IF ok THEN [@ EXCEPT !.pc = to] ELSE Failed(@, from)]
    /\ UNCHANGED <<cycles, cyclePc, symbols_cache, exPos, p1, plan>>
    /\ UNCHANGED <<qtyVars, acctVars>>

\* executor::get_account_info(...).await? at main.rs 260
TaskAccount(s, ok) == AwaitStep(s, "account", "strategy", ok)
\* multi_agent::strategy_researcher_suggest(...).await?
StrategyResearcher(s, ok) == AwaitStep(s, "strategy", "risk", ok)
\* multi_agent::risk_manager_assess(...).await?
RiskManager(s, ok) == AwaitStep(s, "risk", "decide", ok)

Signals == {"Buy", "Sell", "Hold"}
DecisionAmounts == {FromInt(1)}
Decisions == [signal : Signals, amount : DecisionAmounts]

\* multi_agent::trade_executor_decide(...).await?, state::log_decision(...)? and
\* the snapshots taken at main.rs 326-328; a Hold decision ends the task
TradeExecutorDecide(s, result, logOk) ==
    /\ cyclePc = "phase3"
    /\ t3[s].pc = "decide"
    /\ t3' = [t3 EXCEPT ![s] =
                IF result = Err THEN Failed(@, "decide")
                ELSE IF ~logOk THEN Failed(@, "log_decision")
                ELSE [@ EXCEPT !.pc = IF result.signal = "Hold" THEN "ok" ELSE "price",
                               !.signal = result.signal,
                               !.amount = result.amount,
                               !.account_snapshot = Some(PreTrade),
                               !.position_snapshot = p1[s].position]]
    /\ UNCHANGED <<cycles, cyclePc, symbols_cache, exPos, p1, plan>>
    /\ UNCHANGED <<qtyVars, acctVars>>

\* a record of state::log_trade
TradeRecord(action, amount, error) ==
    Some([action |-> action, amount |-> amount, error |-> error])

\* the Err(e) arm at main.rs 406-419: the failed trade is logged with amount 0
\* and the error text; the log write itself may fail and `?` returns that Err
\* mutant: the order error is returned with `?` instead of being logged
OrderFailed_propagates(t, logOk) == Failed(t, "order")

OrderFailed(t, logOk) ==
    IF logOk
    THEN [t EXCEPT !.pc = "ok", !.logged = TradeRecord("Hold", Zero, TRUE)]
    ELSE Failed(t, "log_trade")

\* the Ok(result) arm at main.rs 376-405 up to its first await
OrderSucceeded(t, action, amount, logOk) ==
    LET traded == action # "Hold" IN
    IF ~logOk THEN Failed([t EXCEPT !.traded = traded], "log_trade")
    ELSE [t EXCEPT !.pc = IF traded THEN "post_account" ELSE "ok",
                   !.traded = traded,
                   !.logged = TradeRecord(action, amount, FALSE)]

OpenAction(signal) == IF signal = "Buy" THEN "OpenLong" ELSE "OpenShort"
OpenSide(signal) == IF signal = "Buy" THEN "Long" ELSE "Short"

\* mutant: a reversal opens the new side without closing the held one
DecisionArm_noClose(signal, current_position, trade_amount, max_pos) ==
    IF signal = "Hold" THEN "hold"
    ELSE IF ~IsSome(current_position) THEN "open"
    ELSE IF current_position.v.side # OpenSide(signal) THEN "open"
    ELSE IF Gt(Add(current_position.v.amount, trade_amount), max_pos) THEN "hold"
    ELSE "open"

\* mutant: an add-on is ordered whatever the total
DecisionArm_noLimit(signal, current_position, trade_amount, max_pos) ==
    IF signal = "Hold" THEN "hold"
    ELSE IF ~IsSome(current_position) THEN "open"
    ELSE IF current_position.v.side # OpenSide(signal) THEN "close"
    ELSE "open"

\* the arm of execute_decision's match (executor.rs 723-874) by what it does
\* first: return a Hold result, place the close order, place the open order
DecisionArm(signal, current_position, trade_amount, max_pos) ==
    IF signal = "Hold" THEN "hold"
    ELSE IF ~IsSome(current_position) THEN "open"
    ELSE IF current_position.v.side # OpenSide(signal) THEN "close"
    ELSE IF Gt(Add(current_position.v.amount, trade_amount), max_pos) THEN "hold"
    ELSE "open"

\* execute_decision up to its first order: a reversal closes first, an add-on
\* above max_position is a Hold result without an order
ExecuteDecisionStart(t, position, logOk) ==
    LET arm == DecisionArm(t.signal, position, t.qty, max_position)
    IN  IF arm = "hold" THEN OrderSucceeded(t, "Hold", Zero, logOk)
        ELSE [t EXCEPT !.pc = arm]

Prices == { Some(FromInt(k)) : k \in 1..MaxPrice }

\* mutant: a rejected quantity is treated like a failed order
ResolverRejected_asFailure(t, logOk) == OrderFailed(t, logOk)

\* main.rs 342-355: adjust_trade_quantity returned None; the task returns Ok
\* with traded = false and the snapshots taken before
ResolverRejected(t, logOk) == [t EXCEPT !.pc = "ok"]

\* market::fetch_current_price(...).await?, quantize_price, adjust_trade_quantity
\* and the start of execute_decision
FetchPrice(s, result, logOk) ==
    /\ cyclePc = "phase3"
    /\ t3[s].pc = "price"
    /\ t3' = [t3 EXCEPT ![s] =
                IF result = Err THEN Failed(@, "price")
                ELSE LET c == constraints_map[s]
                         quoted_price == quantize_price(result.v, c.tick_size)
                         maybe == adjust_trade_quantity(@.amount, @.max_amount,
                                      @.allocated_balance, quoted_price, c)
                     IN  IF ~IsSome(maybe) THEN ResolverRejected(@, logOk)
                         ELSE ExecuteDecisionStart([@ EXCEPT !.qty = maybe.v],
                                                   p1[s].position, logOk)]
    /\ UNCHANGED <<cycles, cyclePc, symbols_cache, exPos, p1, plan>>
    /\ UNCHANGED <<qtyVars, acctVars>>

Order(kind, position_side, quantity, accepted) ==
    [kind |-> kind, position_side |-> position_side,
     quantity |-> quantity, accepted |-> accepted]

Held(ex, side) == IF side = "Long" THEN ex.long ELSE ex.short
SetHeld(ex, side, amount) ==
    IF side = "Long" THEN [ex EXCEPT !.long = amount] ELSE [ex EXCEPT !.short = amount]

\* the exchange fills a close order only up to what the side holds and refuses
\* an open order that would take the side above MaxHeld
CanClose(ex, side, quantity) == Ge(Held(ex, side), quantity)
CanOpen(ex, side, quantity) == Le(Add(Held(ex, side), quantity), FromInt(MaxHeld))

\* close_short / close_long of a reversal: place_order(...).await?
CloseOrder(s, sent, logOk) ==
    /\ cyclePc = "phase3"
    /\ t3[s].pc = "close"
    /\ LET t == t3[s]
           side == p1[s].position.v.side
           quantity == p1[s].position.v.amount
           accepted == sent /\ CanClose(exPos[s], side, quantity)
           placed == [t EXCEPT !.orders = Append(@, Order("close", side, quantity, accepted))]
       IN  /\ exPos' = IF accepted
                       THEN [exPos EXCEPT ![s] =
                               SetHeld(@, side, Sub(Held(@, side), quantity))]
                       ELSE exPos
           /\ t3' = [t3 EXCEPT ![s] = IF accepted THEN [placed EXCEPT !.pc = "open"]
                                      ELSE OrderFailed(placed, logOk)]
    /\ UNCHANGED <<cycles, cyclePc, symbols_cache, p1, plan>>
    /\ UNCHANGED <<qtyVars, acctVars>>

\* open_long / open_short: place_order(...).await?, then the arm of main.rs 375
OpenOrder(s, sent, logOk) ==
    /\ cyclePc = "phase3"
    /\ t3[s].pc = "open"
    /\ LET t == t3[s]
           side == OpenSide(t.signal)
           accepted == sent /\ CanOpen(exPos[s], side, t.qty)
           placed == [t EXCEPT !.orders = Append(@, Order("open", side, t.qty, accepted))]
       IN  /\ exPos' = IF accepted
                       THEN [exPos EXCEPT ![s] = SetHeld(@, side, Add(Held(@, side), t.qty))]
                       ELSE exPos
           /\ t3' = [t3 EXCEPT ![s] =
                       IF accepted
                       THEN OrderSucceeded(placed, OpenAction(t.signal), t.qty, logOk)
                       ELSE OrderFailed(placed, logOk)]
    /\ UNCHANGED <<cycles, cyclePc, symbols_cache, p1, plan>>
    /\ UNCHANGED <<qtyVars, acctVars>>

\* executor::get_account_info(...).await.ok() after a trade
PostAccount(s, ok) ==
    /\ cyclePc = "phase3"
    /\ t3[s].pc = "post_account"
    /\ t3' = [t3 EXCEPT ![s] = [@ EXCEPT !.pc = "post_position",
                 !.account_snapshot = IF ok THEN Some(PostTrade) ELSE None]]
    /\ UNCHANGED <<cycles, cyclePc, symbols_cache, exPos, p1, plan>>
    /\ UNCHANGED <<qtyVars, acctVars>>

\* the task stores its refreshed position in the shared cache itself
PostPosition_writesCache(s, ok) ==
    /\ cyclePc = "phase3"
    /\ t3[s].pc = "post_position"
    /\ \E pos \in (IF ok THEN get_position(exPos[s]) ELSE {None}) :
          /\ t3' = [t3 EXCEPT ![s] = [@ EXCEPT !.pc = "ok", !.position_snapshot = pos]]
          /\ symbols_cache' = [symbols_cache EXCEPT
                                 ![s] = Entry(t3[s].account_snapshot, pos, TRUE)]
    /\ UNCHANGED <<cycles, cyclePc, exPos, p1, plan>>
    /\ UNCHANGED <<qtyVars, acctVars>>

\* executor::get_position(...).await.ok().flatten() after a trade
PostPosition(s, ok) ==
    /\ cyclePc = "phase3"
    /\ t3[s].pc = "post_position"
    /\ \E pos \in (IF ok THEN get_position(exPos[s]) ELSE {None}) :
          t3' = [t3 EXCEPT ![s] = [@ EXCEPT !.pc = "ok", !.position_snapshot = pos]]
    /\ UNCHANGED <<cycles, cyclePc, symbols_cache, exPos, p1, plan>>
    /\ UNCHANGED <<qtyVars, acctVars>>

\* mutant: try_join_all, which returns at the first Err
JoinReady_firstErr ==
    \/ \A s \in Symbols : t3[s].pc \in {"none", "ok", "err"}
    \/ \E s \in Symbols : t3[s].pc = "err"

\* join_all(execution_futures).await returns when every future has returned
JoinReady == \A s \in Symbols : t3[s].pc \in {"none", "ok", "err"}

\* mutant: the entry of a failed task keeps the position of the analysis
MergedEntry_errKeepsPosition(t, analysis) ==
    IF t.pc = "ok"
    THEN LET cache_account == t.account_snapshot
             cache_position == IF IsSome(t.position_snapshot) THEN t.position_snapshot
                               ELSE analysis.position
         IN  Entry(cache_account, cache_position,
                   IsSome(cache_account) \/ IsSome(cache_position))
    ELSE NotExecuted(analysis.position)

\* the cache entry written for one joined task at main.rs 601-623
MergedEntry(t, analysis) ==
    IF t.pc = "ok"
    THEN LET cache_account == t.account_snapshot
             cache_position == IF IsSome(t.position_snapshot) THEN t.position_snapshot
                               ELSE analysis.position
         IN  Entry(cache_account, cache_position,
                   IsSome(cache_account) \/ IsSome(cache_position))
    ELSE Entry(None, None, FALSE)

\* the loops at main.rs 601-631 and the return of Ok(any_traded)
Merge ==
    /\ cyclePc = "phase3"
    /\ JoinReady
    /\ symbols_cache' =
          [s \in AllocSymbols |->
              IF s \in Symbols /\ t3[s].pc # "none" THEN MergedEntry(t3[s], p1[s])
              ELSE IF s \in AnalysisMapAfter(plan.allocations) THEN NotExecuted(p1[s].position)
              ELSE symbols_cache[s]]
    /\ cyclePc' = "ret_ok"
    /\ UNCHANGED <<cycles, exPos, p1, plan, t3>>
    /\ UNCHANGED <<qtyVars, acctVars>>

InitCycle ==
    /\ CycleIdle
    /\ AcctIdle
    /\ QtyIdle

NextCycle ==
    \/ StartCycle
    \/ MainLoop
    \/ \E s \in Symbols, o \in KlineOutcomes : FetchKlines(s, o)
    \/ \E s \in Symbols, ok \in BOOLEAN : AnalysisPosition(s, ok)
    \/ \E s \in Symbols, ok \in BOOLEAN : MarketAnalyst(s, ok)
    \/ Phase1Join
    \/ \E ok \in BOOLEAN : Phase2Account(ok)
    \/ \E r \in {Err} \cup Plans : Allocate(r)
    \/ \E s \in Symbols, ok \in BOOLEAN : TaskAccount(s, ok)
    \/ \E s \in Symbols, ok \in BOOLEAN : StrategyResearcher(s, ok)
    \/ \E s \in Symbols, ok \in BOOLEAN : RiskManager(s, ok)
    \/ \E s \in Symbols, r \in {Err} \cup Decisions, logOk \in BOOLEAN :
          TradeExecutorDecide(s, r, logOk)
    \/ \E s \in Symbols, r \in {Err} \cup Prices, logOk \in BOOLEAN : FetchPrice(s, r, logOk)
    \/ \E s \in Symbols, sent \in BOOLEAN, logOk \in BOOLEAN : CloseOrder(s, sent, logOk)
    \/ \E s \in Symbols, sent \in BOOLEAN, logOk \in BOOLEAN : OpenOrder(s, sent, logOk)
    \/ \E s \in Symbols, ok \in BOOLEAN : PostAccount(s, ok)
    \/ \E s \in Symbols, ok \in BOOLEAN : PostPosition(s, ok)
    \/ Merge

SpecCycle == InitCycle /\ [][NextCycle]_vars

\* the steps the future of symbol s can take
TaskNext(s) ==
    \/ \E ok \in BOOLEAN : TaskAccount(s, ok)
    \/ \E ok \in BOOLEAN : StrategyResearcher(s, ok)
    \/ \E ok \in BOOLEAN : RiskManager(s, ok)
    \/ \E r \in {Err} \cup Decisions, logOk \in BOOLEAN : TradeExecutorDecide(s, r, logOk)
    \/ \E r \in {Err} \cup Prices, logOk \in BOOLEAN : FetchPrice(s, r, logOk)
    \/ \E sent \in BOOLEAN, logOk \in BOOLEAN : CloseOrder(s, sent, logOk)
    \/ \E sent \in BOOLEAN, logOk \in BOOLEAN : OpenOrder(s, sent, logOk)
    \/ \E ok \in BOOLEAN : PostAccount(s, ok)
    \/ \E ok \in BOOLEAN : PostPosition(s, ok)

(***************************************************************************)
(* account_stream_loop and establish_account_stream.  stream.streak counts *)
(* the failures since the task started or since the last attempt that      *)
(* reached the streaming loop; stream.sleepFor is the sleep in progress.   *)
(***************************************************************************)
\* account_stream_loop lines 388-403 on the value establish_account_stream returned
\* the loop is left on an Err instead of sleeping
LoopOnResult_exit(st, result) ==
    IF result = "Ok"
    THEN [st EXCEPT !.pc = "sleep", !.result = "Ok", !.backoff = BACKOFF_BASE,
                    !.sleepFor = NORMAL_END_PAUSE, !.kaFailed = FALSE]
    ELSE [st EXCEPT !.pc = "exited", !.result = "Err", !.kaFailed = FALSE]

LoopOnResult(st, result) ==
    IF result = "Ok"
    THEN [st EXCEPT !.pc = "sleep", !.result = "Ok", !.backoff = BACKOFF_BASE,
                    !.sleepFor = NORMAL_END_PAUSE, !.kaFailed = FALSE]
    ELSE [st EXCEPT !.pc = "sleep", !.result = "Err", !.sleepFor = st.backoff,
                    !.streak = Min2(@ + 1, MaxStreak), !.kaFailed = FALSE]

\* the value establish_account_stream returns when its streaming loop is left:
\* every exit of the loop (lines 437, 443, 451, 454, 457) is an Err
StreamExitResult(kind) ==
    CASE kind = "expired" -> "Err"
      [] kind = "pong_failed" -> "Err"
      [] kind = "close" -> "Err"
      [] kind = "error" -> "Err"
      [] kind = "end" -> "Err"

StreamExits == {"expired", "pong_failed", "close", "error", "end"}

\* the doubling without the cap
NextBackoff_uncapped(st) ==
    IF st.result = "Err" THEN st.backoff * 2 ELSE st.backoff

\* the sleep of the loop is over: after an Err the backoff doubles up to the cap
NextBackoff(st) ==
    IF st.result = "Err" THEN Min2(st.backoff * 2, BACKOFF_CAP) ELSE st.backoff

SleepDone ==
    /\ stream.pc = "sleep"
    /\ stream' = [stream EXCEPT !.pc = "listen_key", !.backoff = NextBackoff(stream),
                                !.sleepFor = 0]
    /\ UNCHANGED <<onceCell, initHolder, sender, handles, spawned, readerWrites, caller>>
    /\ UNCHANGED qtyVars
    /\ UNCHANGED cycleVars

\* create_listen_key(...).await?
CreateListenKey(ok) ==
    /\ stream.pc = "listen_key"
    /\ stream' = IF ok THEN [stream EXCEPT !.pc = "seed"] ELSE LoopOnResult(stream, "Err")
    /\ UNCHANGED <<onceCell, initHolder, sender, handles, spawned, readerWrites, caller>>
    /\ UNCHANGED qtyVars
    /\ UNCHANGED cycleVars

\* mutant: a failed direct snapshot empties the cell
SeedSnapshot_clears(r) ==
    /\ stream.pc = "seed"
    /\ sender' = IF r.tag = "Some" THEN r ELSE None
    /\ stream' = [stream EXCEPT !.pc = "connect"]
    /\ UNCHANGED <<onceCell, initHolder, handles, spawned, readerWrites, caller>>
    /\ UNCHANGED qtyVars
    /\ UNCHANGED cycleVars

\* lines 415-417: the direct snapshot taken before the connection is opened
SeedSnapshot(r) ==
    /\ stream.pc = "seed"
    /\ sender' = IF r.tag = "Some" THEN r ELSE sender
    /\ stream' = [stream EXCEPT !.pc = "connect"]
    /\ UNCHANGED <<onceCell, initHolder, handles, spawned, readerWrites, caller>>
    /\ UNCHANGED qtyVars
    /\ UNCHANGED cycleVars

\* connect_async(&ws_url).await with_context ?
Connect(ok) ==
    /\ stream.pc = "connect"
    /\ stream' = IF ok THEN [stream EXCEPT !.pc = "streaming", !.streak = 0]
                 ELSE LoopOnResult(stream, "Err")
    /\ UNCHANGED <<onceCell, initHolder, sender, handles, spawned, readerWrites, caller>>
    /\ UNCHANGED qtyVars
    /\ UNCHANGED cycleVars

\* the USDT entry of an ACCOUNT_UPDATE frame: event k carries wb = k and
\* cw = k, and either field may be missing
BalanceEvents ==
    UNION { [wb : {None, Some(k)}, cw : {None, Some(k)}] : k \in 1..MaxSnap }

\* extract_account_update filling a missing field from the cached snapshot
extract_account_update_merge(balance) ==
    IF ~IsSome(balance.wb) /\ ~IsSome(balance.cw) THEN None
    ELSE IF ~IsSome(sender) /\ (~IsSome(balance.wb) \/ ~IsSome(balance.cw)) THEN None
    ELSE Some([totalWalletBalance |->
                   IF IsSome(balance.wb) THEN balance.wb.v ELSE sender.v.totalWalletBalance,
               availableBalance |->
                   IF IsSome(balance.cw) THEN balance.cw.v ELSE sender.v.availableBalance])

\* extract_account_update: `?` on a missing wb or cw yields None
extract_account_update(balance) ==
    IF ~IsSome(balance.wb) THEN None
    ELSE IF ~IsSome(balance.cw) THEN None
    ELSE Some([totalWalletBalance |-> balance.wb.v, availableBalance |-> balance.cw.v])

\* a Text frame with an ACCOUNT_UPDATE event: Snapshot(info) is stored with
\* send_replace, None changes nothing
PushSnapshot(balance) ==
    /\ stream.pc = "streaming"
    /\ sender' = IF IsSome(extract_account_update(balance))
                 THEN extract_account_update(balance) ELSE sender
    /\ UNCHANGED <<onceCell, initHolder, handles, spawned, readerWrites, caller, stream>>
    /\ UNCHANGED qtyVars
    /\ UNCHANGED cycleVars

\* frames that change nothing: an answered Ping, Pong, Binary, Frame, other Text
IgnoredFrame ==
    /\ stream.pc = "streaming"
    /\ UNCHANGED acctVars
    /\ UNCHANGED qtyVars
    /\ UNCHANGED cycleVars

\* a failed renewal returned with `?`
Keepalive_teardown(ok) ==
    /\ stream.pc = "streaming"
    /\ stream' = IF ok THEN stream ELSE LoopOnResult(stream, "Err")
    /\ UNCHANGED <<onceCell, initHolder, sender, handles, spawned, readerWrites, caller>>
    /\ UNCHANGED qtyVars
    /\ UNCHANGED cycleVars

\* keepalive.tick(): a failed keepalive_listen_key is only logged
Keepalive(ok) ==
    /\ stream.pc = "streaming"
    /\ stream' = [stream EXCEPT !.kaFailed = IF ok THEN @ ELSE TRUE]
    /\ UNCHANGED <<onceCell, initHolder, sender, handles, spawned, readerWrites, caller>>
    /\ UNCHANGED qtyVars
    /\ UNCHANGED cycleVars

\* the streaming loop is left
StreamExit(kind) ==
    /\ stream.pc = "streaming"
    /\ stream' = LoopOnResult(stream, StreamExitResult(kind))
    /\ UNCHANGED <<onceCell, initHolder, sender, handles, spawned, readerWrites, caller>>
    /\ UNCHANGED qtyVars
    /\ UNCHANGED cycleVars

InitAcct ==
    /\ AcctIdle
    /\ QtyIdle
    /\ CycleIdle

NextAcct ==
    \/ \E c \in Callers : Call(c)
    \/ \E c \in Callers, r \in RestResults : NewHandle(c, r)
    \/ \E c \in Callers : InitWake(c)
    \/ \E c \in Callers : WaitWake(c)
    \/ \E c \in Callers : Timeout(c)
    \/ \E c \in Callers, r \in RestResults : Fallback(c, r)
    \/ \E c \in Callers : Return(c)
    \/ Tick
    \/ SleepDone
    \/ \E ok \in BOOLEAN : CreateListenKey(ok)
    \/ \E r \in RestResults : SeedSnapshot(r)
    \/ \E ok \in BOOLEAN : Connect(ok)
    \/ \E balance \in BalanceEvents : PushSnapshot(balance)
    \/ IgnoredFrame
    \/ \E ok \in BOOLEAN : Keepalive(ok)
    \/ \E kind \in StreamExits : StreamExit(kind)

SpecAcct == InitAcct /\ [][NextAcct]_vars

\* the spawned task is scheduled by the runtime and its sleep timer fires
SpecAcctFair == SpecAcct /\ WF_vars(SleepDone)

(***************************************************************************)
(* SpecQty: the resolver applied to every input of the bounded domain.     *)
(***************************************************************************)
Grid == { R(k, QDen) : k \in 0..MaxQ }
SignedGrid == { R(k, QDen) : k \in (-1)..MaxQ }
StepSizes == { R(k, QDen) : k \in 0..QDen }
MaxQtys == {None} \cup { Some(R(k, QDen)) : k \in 1..MaxQ }

SymbolConstraints ==
    [step_size : StepSizes, min_qty : Grid, max_qty : MaxQtys,
     min_notional : { FromInt(k) : k \in 0..MaxNotional }]

QtyInputs ==
    [desired : SignedGrid, allocated_max : SignedGrid,
     allocated_balance : { FromInt(k) : k \in 0..MaxBal },
     price : { FromInt(k) : k \in 0..MaxPrice },
     constraints : SymbolConstraints]

InitQty ==
    /\ qIn \in QtyInputs
    /\ qOut = Pending
    /\ AcctIdle
    /\ CycleIdle

Resolve ==
    /\ qOut = Pending
    /\ qOut' = adjust_trade_quantity(qIn.desired, qIn.allocated_max,
                                     qIn.allocated_balance, qIn.price, qIn.constraints)
    /\ UNCHANGED qIn
    /\ UNCHANGED acctVars
    /\ UNCHANGED cycleVars

NextQty == Resolve

SpecQty == InitQty /\ [][NextQty]_vars

(***************************************************************************)
(* quantize_down / quantize_up in rounded binary floating point (SpecQuant).*)
(* An f64 operation returns the exact result rounded to the nearest value  *)
(* with a 53-bit significand, ties to even.  The same arithmetic is        *)
(* modelled with a significand of MantissaBits bits; the exponent of a     *)
(* result is not bounded (no overflow or underflow).                       *)
(***************************************************************************)
\* bits of the significand
MantissaBits == 3
\* the inputs have exponents -MaxExp..MaxExp
MaxExp == 2

Pow2(e) == IF e >= 0 THEN FromInt(2^e) ELSE R(1, 2^(-e))

\* the exponent e with 2^(MantissaBits-1) <= x / 2^e < 2^MantissaBits, x > 0
RECURSIVE Exponent(_)
Exponent(x) ==
    IF Ge(x, FromInt(2^MantissaBits)) THEN Exponent(Div(x, FromInt(2))) + 1
    ELSE IF Lt(x, FromInt(2^(MantissaBits - 1))) THEN Exponent(Mul(x, FromInt(2))) - 1
    ELSE 0

\* nearest integer, ties to even
RoundHalfEven(q) ==
    LET f == Floor(q)
        twice == 2 * (q.n - f * q.d)
    IN  IF twice < q.d THEN f
        ELSE IF twice > q.d THEN f + 1
        ELSE IF f % 2 = 0 THEN f ELSE f + 1

\* the float nearest to the exact result x
RoundToFloat(x) ==
    IF x.n = 0 THEN Zero
    ELSE LET a == R(Abs(x.n), x.d)
             e == Exponent(a)
             m == RoundHalfEven(Div(a, Pow2(e)))
             r == Mul(FromInt(m), Pow2(e))
         IN  IF x.n < 0 THEN R(-r.n, r.d) ELSE r

\* quantize_up with floor in place of ceil
quantize_up_floor(value, step) ==
    IF Le(step, Zero) THEN value
    ELSE RMax(RoundToFloat(Mul(FromInt(Floor(RoundToFloat(Div(value, step)))), step)), Zero)

\* (value / step).floor() * step, each f64 operation rounded
quantize_down_f64(value, step) ==
    IF Le(step, Zero) THEN value
    ELSE RMax(RoundToFloat(Mul(FromInt(Floor(RoundToFloat(Div(value, step)))), step)), Zero)

\* (value / step).ceil() * step, each f64 operation rounded
quantize_up_f64(value, step) ==
    IF Le(step, Zero) THEN value
    ELSE RMax(RoundToFloat(Mul(FromInt(Ceil(RoundToFloat(Div(value, step)))), step)), Zero)

\* the positive floats of the input domain, zero, and one negative step
PositiveFloats ==
    { Mul(FromInt(m), Pow2(e)) :
        m \in (2^(MantissaBits - 1))..(2^MantissaBits - 1), e \in (-MaxExp)..MaxExp }
QuantInputs ==
    [value : PositiveFloats \cup {Zero},
     step : PositiveFloats \cup {Zero, FromInt(-1)}]

InitQuant ==
    /\ qIn \in QuantInputs
    /\ qOut = [down |-> None, up |-> None]
    /\ AcctIdle
    /\ CycleIdle

QuantizeDown ==
    /\ qOut.down = None
    /\ qOut' = [qOut EXCEPT !.down = Some(quantize_down_f64(qIn.value, qIn.step))]
    /\ UNCHANGED qIn
    /\ UNCHANGED acctVars
    /\ UNCHANGED cycleVars

QuantizeUp ==
    /\ qOut.up = None
    /\ qOut' = [qOut EXCEPT !.up = Some(quantize_up_f64(qIn.value, qIn.step))]
    /\ UNCHANGED qIn
    /\ UNCHANGED acctVars
    /\ UNCHANGED cycleVars

NextQuant == QuantizeDown \/ QuantizeUp

SpecQuant == InitQuant /\ [][NextQuant]_vars

(***************************************************************************)
(* adjust_trade_quantity in the rounded arithmetic of SpecQuant            *)
(* (SpecQtyF64): every division, multiplication and addition is rounded;   *)
(* comparisons, min and max are exact.                                     *)
(***************************************************************************)
\* f64::EPSILON, the gap between 1.0 and the next float
EPSILON_F64 == Pow2(1 - MantissaBits)

\* mutant: no cap at max_qty
CapMaxQty_f64_skip(qty, c) == qty

\* main.rs 66-70 and 84-88
CapMaxQty_f64(qty, c) ==
    IF c.max_qty.tag = "Some" /\ Gt(qty, c.max_qty.v)
    THEN quantize_down_f64(c.max_qty.v, c.step_size)
    ELSE qty

\* main.rs 42-51
EffectiveMax_f64(allocated_max, allocated_balance, price) ==
    IF Gt(allocated_balance, Zero) /\ Gt(price, Zero)
    THEN LET balance_limit == RoundToFloat(Div(allocated_balance, price))
         IN  IF Gt(balance_limit, Zero) THEN RMin(allocated_max, balance_limit)
             ELSE allocated_max
    ELSE allocated_max

\* main.rs 62-64
RaiseToMinQty_f64(qty, c) ==
    IF Lt(qty, c.min_qty) THEN quantize_up_f64(c.min_qty, c.step_size) ELSE qty

\* main.rs 72-78
RaiseToNotional_f64(qty, price, c) ==
    IF Gt(c.min_notional, Zero) /\ Gt(price, Zero)
    THEN LET required ==
                 quantize_up_f64(RoundToFloat(Div(c.min_notional, price)), c.step_size)
         IN  IF Gt(required, qty) THEN required ELSE qty
    ELSE qty

\* main.rs 80-82
ReclampMax_f64(qty, effective_max, c) ==
    IF Gt(qty, effective_max) THEN quantize_down_f64(effective_max, c.step_size) ELSE qty

\* main.rs 94-98
NotionalTooSmall_f64(qty, price, c) ==
    /\ Gt(c.min_notional, Zero)
    /\ Gt(price, Zero)
    /\ Lt(RoundToFloat(Add(RoundToFloat(Mul(qty, price)), EPSILON_F64)), c.min_notional)

\* main.rs 90-104
Accepted_f64(qty, price, c) ==
    IF Lt(qty, c.min_qty) THEN None
    ELSE IF NotionalTooSmall_f64(qty, price, c) THEN None
    ELSE IF Le(qty, Zero) THEN None
    ELSE Some(qty)

adjust_trade_quantity_f64(desired, allocated_max, allocated_balance, price, c) ==
    IF Le(allocated_max, Zero) THEN None
    ELSE Accepted_f64(
             CapMaxQty_f64(
                 ReclampMax_f64(
                     RaiseToNotional_f64(
                         CapMaxQty_f64(
                             RaiseToMinQty_f64(
                                 quantize_down_f64(
                                     ClampMax(DefaultQty(desired, c),
                                              EffectiveMax_f64(allocated_max,
                                                               allocated_balance, price)),
                                     c.step_size),
                                 c),
                             c),
                         price, c),
                     EffectiveMax_f64(allocated_max, allocated_balance, price), c),
                 c),
             price, c)

\* the floats of the input domain up to a limit
FloatsUpTo(k) == { x \in PositiveFloats : Le(x, FromInt(k)) }
QtyInputsF64 ==
    [desired : PositiveFloats \cup {Zero, FromInt(-1)},
     allocated_max : {FromInt(-1), Zero} \cup { Pow2(e) : e \in {1, MaxExp + 2} },
     allocated_balance : {Zero, Pow2(MaxExp + 1)},
     price : {Zero, FromInt(1)},
     constraints :
        [step_size : FloatsUpTo(2) \cup {Zero},
         min_qty : {Zero, FromInt(1)},
         max_qty : {None} \cup { Some(x) : x \in PositiveFloats },
         min_notional : {Zero, FromInt(MaxExp + 1)}]]

InitQtyF64 ==
    /\ qIn \in QtyInputsF64
    /\ qOut = Pending
    /\ AcctIdle
    /\ CycleIdle

ResolveF64 ==
    /\ qOut = Pending
    /\ qOut' = adjust_trade_quantity_f64(qIn.desired, qIn.allocated_max,
                                         qIn.allocated_balance, qIn.price, qIn.constraints)
    /\ UNCHANGED qIn
    /\ UNCHANGED acctVars
    /\ UNCHANGED cycleVars

\* the resolver is called again with the accepted quantity as desired and the
\* other arguments unchanged
ResolveAgainF64 ==
    /\ IsSome(qOut)
    /\ qOut' = [tag |-> "Again", first |-> qOut.v,
                second |-> adjust_trade_quantity_f64(qOut.v, qIn.allocated_max,
                              qIn.allocated_balance, qIn.price, qIn.constraints)]
    /\ UNCHANGED qIn
    /\ UNCHANGED acctVars
    /\ UNCHANGED cycleVars

NextQtyF64 == ResolveF64 \/ ResolveAgainF64

SpecQtyF64 == InitQtyF64 /\ [][NextQtyF64]_vars

(***************************************************************************)
(* get_position applied to every answer of the bounded domain (SpecPos).   *)
(* Amounts are multiples of half of POSITION_EPSILON.                      *)
(***************************************************************************)
\* longest positionRisk answer
MaxRecords == 3
\* largest amount of a record, in halves of POSITION_EPSILON
MaxAmt == 3

PositionAmts ==
    {Unparsed} \cup { Mul(R(k, 2), POSITION_EPSILON) : k \in (-MaxAmt)..MaxAmt }
PositionRecords ==
    { PositionRisk("A", side, amt) : side \in {"LONG", "SHORT", "BOTH"}, amt \in PositionAmts }
    \cup { PositionRisk("B", "LONG", Mul(R(MaxAmt + 1, 2), POSITION_EPSILON)) }
PosInputs ==
    [positions : UNION { [1..n -> PositionRecords] : n \in 0..MaxRecords },
     symbol : {"A"}]

InitPos ==
    /\ qIn \in PosInputs
    /\ qOut = Pending
    /\ AcctIdle
    /\ CycleIdle

GetPosition ==
    /\ qOut = Pending
    /\ qOut' = get_position_of(qIn.positions, qIn.symbol)
    /\ UNCHANGED qIn
    /\ UNCHANGED acctVars
    /\ UNCHANGED cycleVars

NextPos == GetPosition

SpecPos == InitPos /\ [][NextPos]_vars

(***************************************************************************)
(* execute_decision applied to every call of the bounded domain (SpecExec):*)
(* qIn is the call's arguments, qOut the call's position, the orders it    *)
(* has placed and the TradeResult it returned.                             *)
(***************************************************************************)
\* largest held amount, trade_amount and max_position of a call
MaxExecAmt == 3

ExecAmounts == { FromInt(k) : k \in 1..MaxExecAmt }
ExecInputs ==
    [signal : Signals,
     current_position : {None} \cup { Some(Position(side, a)) :
                                        side \in {"Long", "Short"}, a \in ExecAmounts },
     trade_amount : ExecAmounts,
     max_position : ExecAmounts]

TradeResult(action, amount) == Some([action |-> action, amount |-> amount])

InitExec ==
    /\ qIn \in ExecInputs
    /\ qOut = [pc |-> "start", orders |-> <<>>, result |-> None]
    /\ AcctIdle
    /\ CycleIdle

\* the match of executor.rs 723-874 up to the first order
ExecStart ==
    /\ qOut.pc = "start"
    /\ LET arm == DecisionArm(qIn.signal, qIn.current_position, qIn.trade_amount,
                              qIn.max_position)
       IN  qOut' = IF arm = "hold"
                   THEN [qOut EXCEPT !.pc = "ok", !.result = TradeResult("Hold", Zero)]
                   ELSE [qOut EXCEPT !.pc = arm]
    /\ UNCHANGED qIn
    /\ UNCHANGED acctVars
    /\ UNCHANGED cycleVars

\* close_short(symbol, pos.amount, ..).await? / close_long(symbol, pos.amount, ..).await?
ExecClose(accepted) ==
    /\ qOut.pc = "close"
    /\ LET pos == qIn.current_position.v
           placed == Append(qOut.orders, Order("close", pos.side, pos.amount, accepted))
       IN  qOut' = [qOut EXCEPT !.orders = placed,
                                !.pc = IF accepted THEN "open" ELSE "err"]
    /\ UNCHANGED qIn
    /\ UNCHANGED acctVars
    /\ UNCHANGED cycleVars

\* open_long(symbol, trade_amount, ..).await? / open_short(symbol, trade_amount, ..).await?
ExecOpen(accepted) ==
    /\ qOut.pc = "open"
    /\ LET placed == Append(qOut.orders,
                         Order("open", OpenSide(qIn.signal), qIn.trade_amount, accepted))
       IN  qOut' = IF accepted
                   THEN [qOut EXCEPT !.orders = placed, !.pc = "ok",
                            !.result = TradeResult(OpenAction(qIn.signal), qIn.trade_amount)]
                   ELSE [qOut EXCEPT !.orders = placed, !.pc = "err"]
    /\ UNCHANGED qIn
    /\ UNCHANGED acctVars
    /\ UNCHANGED cycleVars

NextExec ==
    \/ ExecStart
    \/ \E accepted \in BOOLEAN : ExecClose(accepted)
    \/ \E accepted \in BOOLEAN : ExecOpen(accepted)

SpecExec == InitExec /\ [][NextExec]_vars

(***************************************************************************)
(* Claims on adjust_trade_quantity (SpecQty).                              *)
(***************************************************************************)
\* effectiveMax as the claims state it
ClaimEffectiveMax(i) ==
    IF Gt(i.allocated_balance, Zero) /\ Gt(i.price, Zero)
    THEN RMin(i.allocated_max, Div(i.allocated_balance, i.price))
    ELSE i.allocated_max

InRange(i, q) ==
    LET c == i.constraints
    IN  /\ Gt(q, Zero)
        /\ (Gt(c.step_size, Zero) => IsMultiple(q, c.step_size))
        /\ Ge(q, c.min_qty)
        /\ Ge(Mul(q, i.price), c.min_notional)
        /\ Le(q, ClaimEffectiveMax(i))
        /\ (c.max_qty.tag = "Some" => Le(q, c.max_qty.v))

\* if some quantity is in range, one of these is: a grid point or a ceiling
RangeCandidates(i) ==
    Grid \cup {ClaimEffectiveMax(i)}
         \cup (IF i.constraints.max_qty.tag = "Some" THEN {i.constraints.max_qty.v} ELSE {})

\* C2: whenever some quantity is in range, the resolver accepts, for every
\* desired value.
C2_RejectsOnlyIfNoneInRange ==
    (qOut # Pending /\ \E q \in RangeCandidates(qIn) : InRange(qIn, q))
        => qOut.tag = "Some"

(***************************************************************************)
(* Claims on the account snapshot cell (SpecAcct).                         *)
(***************************************************************************)
\* C3: at most one handle is created and at most one stream task spawned; at
\* most one caller runs the initialization, and every other first caller waits
\* for that in-flight initialization until the cell is set.
C3_SingleInit ==
    /\ handles <= 1
    /\ spawned <= 1
    /\ (onceCell = "Set") = (handles = 1)
    /\ Cardinality({c \in Callers : caller[c].pc = "init_rest"}) <= 1
    /\ \A c \in Callers :
        /\ caller[c].pc = "init_rest" => (initHolder = c /\ onceCell = "Empty")
        /\ caller[c].pc = "init_wait" =>
              (onceCell = "Set" \/ (initHolder # NoCaller /\ initHolder # c))

\* the initializer has just finished while a concurrent first caller is queued
C3_Witness ==
    /\ spawned = 1
    /\ \E c1, c2 \in Callers :
        /\ c1 # c2
        /\ caller[c1].net = 1
        /\ caller[c1].pc \in {"done", "wait"}
        /\ caller[c2].pc = "init_wait"

C5_CachedReturn ==
    \A c \in Callers :
        (caller[c].pc # "idle" /\ caller[c].seen.tag = "Some") =>
            /\ caller[c].pc = "done"
            /\ caller[c].ret = caller[c].seen
            /\ caller[c].net = 0
            /\ caller[c].elapsed = 0

\* a call returned a cached value that a later push has already replaced
C5_Witness ==
    \E c \in Callers :
        /\ caller[c].pc = "done"
        /\ caller[c].seen.tag = "Some"
        /\ caller[c].ret = caller[c].seen
        /\ sender # caller[c].seen

C7_BackoffSequence ==
    (stream.pc = "sleep" /\ stream.result = "Err") =>
        /\ stream.streak = 1 => stream.sleepFor = 5
        /\ stream.streak = 2 => stream.sleepFor = 10
        /\ stream.streak = 3 => stream.sleepFor = 20

(***************************************************************************)
(* Claims about the portfolio cycle (SpecCycle)                            *)
(***************************************************************************)
Terminal(t) == t.pc \in {"none", "ok", "err"}
Other(a) == Symbols \ {a}

\* the step in which symbol s submits an order that fails
OrderFails(s) ==
    /\ Len(t3'[s].orders) = Len(t3[s].orders) + 1
    /\ ~t3'[s].orders[Len(t3'[s].orders)].accepted

\* C8: Phase-3 isolation. When the task of a symbol fails, the task of every
\* other symbol is left as it is and can still take its next step; the join
\* ends only when every task has returned, and then the cycle returns success
\* with the trade record of every task kept and the cache entry of every task
\* that returned normally written from that task's own snapshots.
C8_Phase3Isolation ==
    /\ [][\A a \in Symbols :
            (t3[a].pc # "err" /\ t3'[a].pc = "err")
               => /\ cyclePc' = cyclePc
                  /\ \A b \in Other(a) : t3'[b] = t3[b]]_vars
    /\ [](\A a \in Symbols : \A b \in Other(a) :
            (cyclePc = "phase3" /\ t3[a].pc = "err" /\ ~Terminal(t3[b]))
               => ENABLED TaskNext(b))
    /\ [][(cyclePc = "phase3" /\ cyclePc' # "phase3")
            => /\ \A s \in Symbols : Terminal(t3[s])
               /\ cyclePc' = "ret_ok"
               /\ t3' = t3
               /\ \A b \in Symbols :
                    t3[b].pc = "ok"
                       => /\ symbols_cache'[b].tag = "Entry"
                          /\ symbols_cache'[b].account = t3[b].account_snapshot
                          /\ symbols_cache'[b].position =
                                (IF t3[b].position_snapshot # None
                                 THEN t3[b].position_snapshot ELSE p1[b].position)]_vars

C8_Witness ==
    /\ cyclePc = "ret_ok"
    /\ \E a \in Symbols : \E b \in Other(a) :
          /\ t3[a].pc = "err"
          /\ t3[a].orders # <<>>
          /\ t3[b].pc = "ok"
          /\ t3[b].traded
          /\ t3[b].logged # None
          /\ symbols_cache[b].tag = "Entry"
          /\ symbols_cache[b].account = Some(PostTrade)
          /\ symbols_cache[b].position = t3[b].position_snapshot
          /\ symbols_cache[a] = Entry(None, None, FALSE)

\* C9 as stated: whenever an order submission fails, the task records a failed
\* trade with amount 0 and the error attached and returns normally with
\* traded = false, and no other task is touched.
C9_FailedOrderRecorded_Original ==
    [][\A s \in Symbols :
          OrderFails(s)
             => /\ t3'[s].pc = "ok"
                /\ t3'[s].logged = Some([action |-> "Hold", amount |-> Zero, error |-> TRUE])
                /\ ~t3'[s].traded
                /\ cyclePc' = cyclePc
                /\ \A b \in Other(s) : t3'[b] = t3[b]]_vars

\* C9 amended: when an order submission fails, either the failed trade (amount
\* 0, error attached) is recorded and the task returns normally with traded =
\* false, or the write of that record failed and the task returns the write
\* error with nothing recorded; the order error itself is never returned, and
\* in both cases no other task is touched and the cycle goes on.
C9_FailedOrderRecorded ==
    [][\A s \in Symbols :
          OrderFails(s)
             => /\ \/ /\ t3'[s].pc = "ok"
                      /\ t3'[s].logged =
                            Some([action |-> "Hold", amount |-> Zero, error |-> TRUE])
                   \/ /\ t3'[s].pc = "err"
                      /\ t3'[s].error = "log_trade"
                      /\ t3'[s].logged = None
                /\ ~t3'[s].traded
                /\ cyclePc' = cyclePc
                /\ \A b \in Other(s) : t3'[b] = t3[b]]_vars

C9_Witness ==
    /\ cyclePc = "phase3"
    /\ \E s \in Symbols : \E b \in Other(s) :
          /\ t3[s].pc = "ok"
          /\ t3[s].orders # <<>>
          /\ ~t3[s].orders[Len(t3[s].orders)].accepted
          /\ t3[s].logged = Some([action |-> "Hold", amount |-> Zero, error |-> TRUE])
          /\ ~t3[s].traded
          /\ t3[b].pc = "open"

\* C10: phase barriers. The balance query and the allocation call of Phase 2
\* are made only when every Phase-1 analysis has returned Ok; a plan is set at
\* most once per cycle, by the allocation call; a Phase-3 task exists, and an
\* order is submitted, only after the allocation call returned its plan.
C10_PhaseBarriers ==
    /\ [](cyclePc \in {"phase2_account", "phase2_alloc", "phase3"}
             => \A s \in Symbols : p1[s].pc = "ok")
    /\ []((\E s \in Symbols : t3[s].pc # "none")
             => /\ plan # NoPlan
                /\ cyclePc \in {"phase3", "ret_ok"})
    /\ [][(plan' # plan /\ plan' # NoPlan)
             => /\ plan = NoPlan
                /\ cyclePc = "phase2_alloc"
                /\ \A s \in Symbols : p1[s].pc = "ok" /\ t3[s].pc = "none"]_vars
    /\ [][(\E s \in Symbols : t3'[s].orders # t3[s].orders /\ t3'[s].orders # <<>>)
             => /\ cyclePc = "phase3"
                /\ plan # NoPlan
                /\ plan' = plan]_vars
    /\ [][exPos' # exPos => cyclePc = "phase3" /\ plan # NoPlan]_vars

C10_Witness ==
    /\ cyclePc = "phase3"
    /\ plan # NoPlan
    /\ \A s \in Symbols : p1[s].pc = "ok"
    /\ \E s \in Symbols :
          /\ t3[s].orders # <<>>
          /\ t3[s].orders[1].accepted

\* C11: a failed Phase-1 analysis aborts the cycle. The step in which an analysis
\* returns Err ends run_portfolio_cycle with an error; in that cycle no plan was
\* requested, no Phase-3 task exists and no order reaches the exchange; the
\* analyses of the other symbols need not have finished.
C11_Phase1Abort ==
    /\ [][\A s \in Symbols :
            (p1[s].pc # "err" /\ p1'[s].pc = "err") => cyclePc' = "ret_err"]_vars
    /\ []((\E s \in Symbols : p1[s].pc = "err")
            => /\ cyclePc = "ret_err"
               /\ plan = NoPlan
               /\ \A b \in Symbols : t3[b] = NoTask)
    /\ [][(\E s \in Symbols : p1[s].pc = "err")
            => /\ exPos' = exPos
               /\ cyclePc' = "idle"
               /\ plan' = NoPlan
               /\ \A b \in Symbols : t3'[b] = NoTask]_vars

\* an analysis failed while the analysis of the other symbol was still pending
C11_Witness ==
    /\ cyclePc = "ret_err"
    /\ \E s \in Symbols : \E b \in Other(s) :
          /\ p1[s].pc = "err"
          /\ p1[b].pc \in {"klines", "position", "analyst"}
    /\ plan = NoPlan

\* C12: a failed cycle does not end the process. When run_portfolio_cycle has
\* returned, with Ok or with Err, the main loop can always go on; after an Err
\* its one step empties the whole cache and waits for the next tick; at a tick
\* a new cycle can always start, and a cycle started on an empty cache takes no
\* position from the cache.
C12_FailedCycleContinues ==
    /\ [][cyclePc = "ret_err"
            => /\ cyclePc' = "idle"
               /\ \A s \in AllocSymbols : symbols_cache'[s] = Absent]_vars
    /\ [](cyclePc \in {"ret_ok", "ret_err"} => ENABLED MainLoop)
    /\ []((cyclePc = "idle" /\ cycles < MaxCycles) => ENABLED StartCycle)
    /\ [][(cyclePc = "idle" /\ cyclePc' # "idle")
            => /\ cyclePc' = "phase1"
               /\ \A s \in Symbols :
                     symbols_cache[s] = Absent
                        => (~p1'[s].use_cache /\ p1'[s].pc = "klines")]_vars

\* a cycle failed after an earlier cycle had traded and filled the cache, and
\* the main loop is back at the ticker with the cache emptied
C12_Witness ==
    /\ cyclePc = "idle"
    /\ cycles = 2
    /\ \A s \in AllocSymbols : symbols_cache[s] = Absent
    /\ \E s \in Symbols : exPos[s] # Flat

\* some order of the task of symbol s was accepted by the exchange
OrderAccepted(s) == \E i \in 1..Len(t3[s].orders) : t3[s].orders[i].accepted

\* C13: after a cycle, the entry of a symbol for which the exchange accepted an
\* order is usable only if its position came from the position query made after
\* the order (the task traded and that query returned a position).
C13_UsableOnlyIfFresh ==
    cyclePc = "ret_ok" =>
        \A s \in Symbols :
            (OrderAccepted(s) /\ symbols_cache[s].tag = "Entry" /\ symbols_cache[s].use_cache)
                => /\ t3[s].pc = "ok"
                   /\ t3[s].traded
                   /\ t3[s].position_snapshot # None
                   /\ symbols_cache[s].position = t3[s].position_snapshot

\* C14: the position a Phase-3 task hands to the strategy, risk and decision
\* providers is queried by the task itself: it is not the position of the cycle
\* cache, and it is the position the exchange holds when the providers run.
C14_FreshInputs ==
    \A s \in Symbols :
        (cyclePc = "phase3" /\ t3[s].pc \in {"strategy", "risk", "decide"})
            => /\ ~p1[s].use_cache
               /\ p1[s].position \in get_position(exPos[s])


\* the allocation entry the plan loop evaluates for symbol s: the first one
\* that names it
Listed(s) == plan # NoPlan /\ \E i \in 1..Len(plan.allocations) : plan.allocations[i].symbol = s
AllocOf(s) ==
    LET first == CHOOSE i \in 1..Len(plan.allocations) :
                    /\ plan.allocations[i].symbol = s
                    /\ \A j \in 1..(i - 1) : plan.allocations[j].symbol # s
    IN  plan.allocations[first]
Excluded(alloc) ==
    \/ alloc.priority = "Skip"
    \/ alloc.symbol \notin DOMAIN constraints_map
    \/ Le(alloc.allocated_balance, Zero)
    \/ Le(MaxAmount(alloc, constraints_map[alloc.symbol]), Zero)

\* C15: a symbol whose allocation has priority Skip, has no constraint set, or
\* has a non-positive budget or ceiling has no Phase-3 task in that cycle: its
\* task slot stays empty (no provider call, no order recorded) and no order of
\* the cycle changes its position on the exchange.
C15_ExcludedNoTask ==
    /\ [](\A s \in Symbols : (Listed(s) /\ Excluded(AllocOf(s))) => t3[s] = NoTask)
    /\ [][\A s \in Symbols :
            (Listed(s) /\ Excluded(AllocOf(s))) => /\ exPos'[s] = exPos[s]
                                                  /\ t3'[s] = NoTask]_vars
C15_Witness ==
    /\ cyclePc = "ret_ok"
    /\ \E s \in Symbols : \E b \in Symbols \ {s} :
          /\ Listed(s) /\ Excluded(AllocOf(s))
          /\ t3[s] = NoTask
          /\ OrderAccepted(b)

\* both functions have been applied to the input
Quantized == qIn \in QuantInputs /\ IsSome(qOut.down) /\ IsSome(qOut.up)
\* unit roundoff: the relative error of one rounded operation is at most
\* 2^(-MantissaBits)
OnePlusU == R(2^MantissaBits + 1, 2^MantissaBits)
OneMinusU == R(2^MantissaBits - 1, 2^MantissaBits)
\* k * step as the float multiplication returns it
RoundedMultiple(k, step) == RoundToFloat(Mul(FromInt(k), step))
MaxMultiple == 2^(MantissaBits + 2 * MaxExp) + 1

C17_LastWriteWins ==
    /\ [][\A k \in 1..MaxSnap :
            PushSnapshot([wb |-> Some(k), cw |-> Some(k)]) => sender' = Some(AccountInfo(k))]_vars
    /\ [][\A b \in BalanceEvents :
            (PushSnapshot(b) /\ (b.wb = None \/ b.cw = None)) => sender' = sender]_vars
    /\ [][sender' # sender => sender' \in { Some(i) : i \in Snapshots }]_vars
    /\ [](IsSome(sender) => sender.v \in Snapshots)
\* the stream has replaced a snapshot that a caller had read from the cell
C17_Witness ==
    /\ stream.pc = "streaming"
    /\ \E c \in Callers : \E k \in 1..MaxSnap :
          /\ caller[c].seen = Some(AccountInfo(k))
          /\ IsSome(sender)
          /\ sender.v \in Snapshots \ {AccountInfo(k)}

\* C18: outside the push-feed reconnection path a transport error surfaces at
\* once: a Phase-1 call that is answered either completes or fails its
\* future, it is never issued a second time.
C18_NoRetryOutsideStream ==
    [][\A s \in Symbols :
         (p1[s].pc \in {"klines", "position", "analyst"} /\ p1'[s] # p1[s]) =>
             /\ p1'[s].pc # p1[s].pc
             /\ p1'[s].retries = 0]_vars

\* requiredQty of step 8 and the quantity that reaches step 8
RequiredQty(i) == quantize_up(Div(i.constraints.min_notional, i.price), i.constraints.step_size)
QtyBeforeNotional(i) ==
    LET c == i.constraints
    IN  CapMaxQty(RaiseToMinQty(quantize_down(ClampMax(DefaultQty(i.desired, c),
                                                     ClaimEffectiveMax(i)),
                                            c.step_size), c), c)
\* step 8 raises qty to requiredQty, which is above effectiveMax or maxQty
RaisedAboveCeiling(i) ==
    /\ Gt(i.allocated_max, Zero)
    /\ Gt(i.constraints.min_notional, Zero)
    /\ Gt(i.price, Zero)
    /\ Gt(RequiredQty(i), QtyBeforeNotional(i))
    /\ \/ Gt(RequiredQty(i), ClaimEffectiveMax(i))
       \/ IsSome(i.constraints.max_qty) /\ Gt(RequiredQty(i), i.constraints.max_qty.v)
\* quantizeDown of the ceiling
ReclampedQty(i) ==
    LET c == i.constraints
        down == quantize_down(ClaimEffectiveMax(i), c.step_size)
    IN  IF IsSome(c.max_qty) THEN RMin(down, quantize_down(c.max_qty.v, c.step_size))
        ELSE down
\* the example of the spec: step 0.001, minQty 0.002, minNotional 5,
\* price 100, desired 0.0005, allocatedBalance 1000
SpecExample(allocated_max) ==
    [desired |-> R(5, 10000), allocated_max |-> allocated_max,
     allocated_balance |-> FromInt(1000), price |-> FromInt(100),
     constraints |-> [step_size |-> R(1, 1000), min_qty |-> R(2, 1000),
                      max_qty |-> None, min_notional |-> FromInt(5)]]
ResolveExample(i) ==
    adjust_trade_quantity(i.desired, i.allocated_max, i.allocated_balance,
                          i.price, i.constraints)

RequiredQtyInRange(i) ==
    LET c == i.constraints
    IN  /\ Gt(i.allocated_max, Zero)
        /\ Gt(c.min_notional, Zero)
        /\ Gt(i.price, Zero)
        /\ Lt(i.desired, Div(c.min_notional, i.price))
        /\ Ge(RequiredQty(i), c.min_qty)
        /\ Le(RequiredQty(i), ClaimEffectiveMax(i))
        /\ (IsSome(c.max_qty) => Le(RequiredQty(i), c.max_qty.v))

C21_SeedOnStreaming ==
    [][/\ (stream'.pc = "connect" /\ stream.pc # "connect") =>
             stream.pc \in {"listen_key", "seed"}
       /\ (stream'.pc = "streaming" /\ stream.pc # "streaming") =>
             stream.pc = "connect"
       /\ (sender' # sender /\ caller' = caller) => stream.pc = "streaming"]_vars


\* C22: the loop starts with a backoff of 5 s, a failure waits the current
\* backoff and then doubles it up to the cap of 60 s, and in every reachable
\* state the backoff is one of 5, 10, 20, 40, 60.
C22_BackoffBounded ==
    /\ [](stream.backoff \in {5, 10, 20, 40, 60})
    /\ []((stream.pc = "sleep" /\ stream.result = "Err") => stream.sleepFor = stream.backoff)
    /\ [][(stream.pc = "none" /\ stream'.pc # "none") => stream'.backoff = 5]_vars
    /\ [][(stream.pc = "sleep" /\ stream.result = "Err" /\ stream'.pc # "sleep") =>
             stream'.backoff = IF stream.backoff >= 40 THEN 60 ELSE 2 * stream.backoff]_vars
\* a failure waits the capped 60 s
C22_Witness ==
    /\ stream.pc = "sleep"
    /\ stream.result = "Err"
    /\ stream.backoff = 60
    /\ stream.sleepFor = 60

\* C23: when the push stream ends normally (the stream yields no further
\* message), the backoff is reset to 5 s and the next attempt follows after
\* the fixed pause of 1 s.
C23_NormalEndResets ==
    [][StreamExit("end") => /\ stream'.pc = "sleep"
                            /\ stream'.backoff = 5
                            /\ stream'.sleepFor = 1]_vars

\* a step of the spawned stream task
StreamStep ==
    \/ SleepDone
    \/ \E ok \in BOOLEAN : CreateListenKey(ok)
    \/ \E r \in RestResults : SeedSnapshot(r)
    \/ \E ok \in BOOLEAN : Connect(ok)
    \/ IgnoredFrame
    \/ \E kind \in StreamExits : StreamExit(kind)

\* C24: an expired session, a stream error and a close each end the streaming
\* session and put the loop to sleep; the sleep is followed by a new attempt
\* that starts with the session-token request; the loop never terminates
\* (the spawned task always has a next step), and under fairness every
\* failure is eventually followed by a new attempt.
C24_ReconnectAlways ==
    /\ [][\A kind \in {"expired", "error", "close"} :
            StreamExit(kind) => (stream.pc = "streaming" /\ stream'.pc = "sleep")]_vars
    /\ [][(stream.pc = "sleep" /\ stream'.pc # "sleep") => stream'.pc = "listen_key"]_vars
    /\ [](stream.pc # "none" => ENABLED StreamStep)
    /\ (stream.pc = "sleep") ~> (stream.pc = "listen_key")
\* a new attempt has started after a streaming session failed
C24_Witness ==
    /\ stream.pc = "listen_key"
    /\ stream.result = "Err"
    /\ stream.streak = 1
    /\ stream.backoff = 10
    /\ IsSome(sender)

\* C25: a failed keepalive renewal while Streaming is only logged: the step
\* leaves the session streaming and the cell, the backoff and the pending
\* wait unchanged, and the session stays in Streaming, still accepting push
\* frames, until one of the stream exits ends it.
C25_KeepaliveFailureLogged ==
    /\ [][Keepalive(FALSE) => /\ stream.pc = "streaming"
                              /\ stream'.pc = "streaming"
                              /\ sender' = sender
                              /\ stream'.backoff = stream.backoff
                              /\ stream'.sleepFor = stream.sleepFor
                              /\ stream'.streak = stream.streak]_vars
    /\ [](stream.kaFailed =>
            /\ stream.pc = "streaming"
            /\ ENABLED PushSnapshot([wb |-> Some(1), cw |-> Some(1)]))
    /\ [][(stream.kaFailed /\ stream'.pc # "streaming") =>
             \E kind \in StreamExits : StreamExit(kind)]_vars
\* a renewal failed on a session that reconnected earlier; the session streams on
C25_Witness ==
    /\ stream.kaFailed
    /\ stream.pc = "streaming"
    /\ stream.backoff = 20
    /\ IsSome(sender)

\* C26: when the coordinator's strategy tag differs from the configured mode
\* only the tag is replaced: the stored plan has the configured tag and the
\* allocations of the reply, and every Phase-3 task runs with the budget and
\* the ceiling of its symbol's allocation in that reply.
C26_OnlyTagReplaced ==
    /\ [][\A result \in Plans :
            (Allocate(result) /\ result.strategy # desired_portfolio_strategy) =>
                /\ plan'.strategy = desired_portfolio_strategy
                /\ plan'.allocations = result.allocations
                /\ \A s \in Symbols :
                      t3'[s] = PlanLoop(result.allocations, 1,
                                  [analysis_map |-> Symbols, cache |-> symbols_cache,
                                   tasks |-> [x \in Symbols |-> NoTask],
                                   futures |-> <<>>], p1).tasks[s]]_vars
    /\ [](plan # NoPlan => plan.strategy = desired_portfolio_strategy)
    /\ [](\A s \in Symbols :
            (plan # NoPlan /\ t3[s].pc # "none") =>
                /\ Listed(s)
                /\ AllocOf(s).priority # "Skip"
                /\ t3[s].allocated_balance = AllocOf(s).allocated_balance
                /\ t3[s].max_amount = MaxAmount(AllocOf(s), constraints_map[s]))
\* a cycle has ended in which a task traded with the budget and the ceiling of
\* its allocation, under a stored plan that carries the configured tag
C26_Witness ==
    /\ cyclePc = "ret_ok"
    /\ plan # NoPlan
    /\ plan.strategy = desired_portfolio_strategy
    /\ Len(plan.allocations) = MaxAllocs
    /\ \E s \in Symbols :
          /\ OrderAccepted(s)
          /\ t3[s].allocated_balance = AllocOf(s).allocated_balance
          /\ t3[s].max_amount = MaxAmount(AllocOf(s), constraints_map[s])

\* C27: after the cycle the cache entry of every symbol excluded from Phase 3
\* has no account snapshot, the position observed in Phase 1 and the usable
\* flag false.
C27_ExcludedEntryNotUsable ==
    cyclePc = "ret_ok" =>
        \A s \in Symbols :
            (Listed(s) /\ Excluded(AllocOf(s))) =>
                symbols_cache[s] = Entry(None, p1[s].position, FALSE)

\* the task of s returned Ok after a Hold decision or after the resolver
\* rejected the quantity: no order was sent and no trade was logged
NoTradeOutcome(s) ==
    /\ t3[s].pc = "ok"
    /\ t3[s].orders = <<>>
    /\ t3[s].logged = None
ListedOnce(s) ==
    /\ plan # NoPlan
    /\ Cardinality({ i \in 1..Len(plan.allocations) : plan.allocations[i].symbol = s }) = 1

\* C28: when the decision is Hold or the resolver rejects, the symbol's cache
\* entry after the cycle is the entry it had before the cycle.
C28_NoTradeKeepsEntry ==
    [][(cyclePc = "phase3" /\ cyclePc' = "ret_ok") =>
         \A s \in Symbols :
            (ListedOnce(s) /\ NoTradeOutcome(s)) => symbols_cache'[s] = symbols_cache[s]]_vars

\* a Phase-1 or Phase-3 future of s has been started, has not returned and has
\* not been dropped by the return of the cycle
Phase1Running(s) == cyclePc = "phase1" /\ p1[s].pc \in {"klines", "position", "analyst"}
Phase3Running(s) == cyclePc = "phase3" /\ t3[s].pc \notin {"none", "ok", "err"}

\* C29: the cycle cache is written only by the orchestrator: a step of a
\* Phase-1 or Phase-3 task never changes it, and every change happens while no
\* task is running, either in the allocation step before any Phase-3 task has
\* started, or in the merge after all Phase-3 tasks have returned, or when
\* the main loop clears the cache after a failed cycle.
C29_OrchestratorOnlyWrites ==
    /\ [][symbols_cache' # symbols_cache =>
             /\ \A s \in Symbols : ~Phase1Running(s) /\ ~Phase3Running(s)
             /\ \/ cyclePc = "phase2_alloc" /\ \A s \in Symbols : t3[s] = NoTask
                \/ cyclePc = "phase3" /\ cyclePc' = "ret_ok"
                \/ cyclePc = "ret_err" /\ cyclePc' = "idle"]_vars
    /\ [][\A s \in Symbols :
            ((Phase1Running(s) /\ p1'[s] # p1[s]) \/ (Phase3Running(s) /\ t3'[s] # t3[s]))
                => symbols_cache' = symbols_cache]_vars
\* the merge has written the entries of two tasks, one of which traded
C29_Witness ==
    /\ cyclePc = "ret_ok"
    /\ \A s \in Symbols : t3[s].pc = "ok" /\ symbols_cache[s] = MergedEntry(t3[s], p1[s])
    /\ \E s \in Symbols : OrderAccepted(s) /\ IsSome(t3[s].position_snapshot)

\* C30: after an order of s was accepted, the entry stored for the next cycle
\* holds the account snapshot and the position queried after the order.
C30_PostTradeValuesCached ==
    cyclePc = "ret_ok" =>
        \A s \in Symbols :
            OrderAccepted(s) =>
                /\ symbols_cache[s] # Absent
                /\ symbols_cache[s].account = Some(PostTrade)
                /\ symbols_cache[s].position \in get_position(exPos[s])

\* the entry of s is marked usable
Usable(s) == symbols_cache[s] # Absent /\ symbols_cache[s].use_cache

\* C31: in Phase 1 the position of a symbol comes from the cycle cache exactly
\* when its entry is marked usable; otherwise it is the answer of a direct
\* position query, and a failed query fails the analysis and with it the cycle.
C31_CachedPositionIffUsable ==
    /\ [][StartCycle =>
            \A s \in Symbols :
                /\ p1'[s].use_cache = Usable(s)
                /\ Usable(s) => p1'[s].position = symbols_cache[s].position]_vars
    /\ [](\A s \in Symbols :
            cyclePc = "phase1" =>
                /\ p1[s].pc = "position" => ~Usable(s)
                /\ p1[s].pc \in {"analyst", "ok"} =>
                      IF Usable(s) THEN p1[s].position = symbols_cache[s].position
                      ELSE p1[s].position \in get_position(exPos[s]))
    /\ [][\A s \in Symbols :
            AnalysisPosition(s, FALSE) => p1'[s].pc = "err" /\ cyclePc' = "ret_err"]_vars
\* in one cycle a held position is read from a usable entry while the other
\* symbol, whose entry is not usable, got a held position from a query
C31_Witness ==
    /\ cyclePc = "phase1"
    /\ \E s \in Symbols :
          /\ Usable(s) /\ p1[s].pc = "analyst" /\ IsSome(p1[s].position)
          /\ \E b \in Symbols \ {s} :
                ~Usable(b) /\ p1[b].pc = "analyst" /\ IsSome(p1[b].position)

\* the records of the answer that get_position does not ignore
KeptRecords ==
    { i \in 1..Len(qIn.positions) :
        /\ qIn.positions[i].symbol = qIn.symbol
        /\ Ge(RAbs(ParseAmount(qIn.positions[i].positionAmt)), POSITION_EPSILON) }
AbsAmount(i) == RAbs(ParseAmount(qIn.positions[i].positionAmt))
\* the first of the kept records that have the largest absolute amount
FirstLargest ==
    CHOOSE i \in KeptRecords :
        /\ \A j \in KeptRecords : Ge(AbsAmount(i), AbsAmount(j))
        /\ \A j \in KeptRecords : AbsAmount(j) = AbsAmount(i) => i <= j

ResolvedQty(s, price) ==
    adjust_trade_quantity(t3[s].amount, t3[s].max_amount, t3[s].allocated_balance,
                          quantize_price(price.v, constraints_map[s].tick_size),
                          constraints_map[s])

\* C33: an order is submitted for a symbol only after a Buy or Sell decision
\* for which the resolver accepted a quantity; when the resolver rejects, the
\* task returns Ok with traded false, no order and no trade record.
C33_OrderOnlyIfAccepted ==
    /\ [](\A s \in Symbols :
            t3[s].orders # <<>> =>
                /\ t3[s].signal \in {"Buy", "Sell"}
                /\ Gt(t3[s].qty, Zero)
                /\ \A i \in 1..Len(t3[s].orders) :
                      t3[s].orders[i].kind = "open" => t3[s].orders[i].quantity = t3[s].qty)
    /\ [][\A s \in Symbols, price \in Prices, logOk \in BOOLEAN :
            FetchPrice(s, price, logOk) =>
                IF ResolvedQty(s, price) = None
                THEN /\ t3'[s].pc = "ok"
                     /\ ~t3'[s].traded
                     /\ t3'[s].orders = <<>>
                     /\ t3'[s].logged = None
                     /\ t3'[s].account_snapshot = t3[s].account_snapshot
                     /\ t3'[s].position_snapshot = t3[s].position_snapshot
                ELSE t3'[s].qty = ResolvedQty(s, price).v]_vars
\* a cycle has ended in which one task returned Ok after a rejected quantity
\* and the other task placed an accepted order
C33_Witness ==
    /\ cyclePc = "ret_ok"
    /\ \E s \in Symbols :
          /\ t3[s].pc = "ok" /\ t3[s].signal # "Hold" /\ t3[s].qty = Zero
          /\ t3[s].orders = <<>> /\ t3[s].logged = None /\ ~t3[s].traded
          /\ \E b \in Symbols \ {s} : OrderAccepted(b)

\* the signal of the call is opposite to / in the direction of the held position
Reversal ==
    /\ qIn.signal # "Hold"
    /\ IsSome(qIn.current_position)
    /\ qIn.current_position.v.side # OpenSide(qIn.signal)
AddOn ==
    /\ qIn.signal # "Hold"
    /\ IsSome(qIn.current_position)
    /\ qIn.current_position.v.side = OpenSide(qIn.signal)
ExecReturned == qOut.pc \in {"ok", "err"}

\* C34: on a signal opposite to the held position the close order for the full
\* held amount is placed before the open order, no open order follows a failed
\* close order, and a call places at most two orders, none on Hold.
C34_CloseBeforeOpen ==
    /\ Len(qOut.orders) <= 2
    /\ qIn.signal = "Hold" => qOut.orders = <<>>
    /\ (Reversal /\ qOut.orders # <<>>) =>
          /\ qOut.orders[1].kind = "close"
          /\ qOut.orders[1].position_side = qIn.current_position.v.side
          /\ qOut.orders[1].quantity = qIn.current_position.v.amount
          /\ \A i \in 2..Len(qOut.orders) :
                /\ qOut.orders[i].kind = "open"
                /\ qOut.orders[1].accepted
          /\ ~qOut.orders[1].accepted => qOut.pc = "err"
    /\ (Reversal /\ qOut.pc = "ok") =>
          /\ Len(qOut.orders) = 2
          /\ qOut.orders[2] = Order("open", OpenSide(qIn.signal), qIn.trade_amount, TRUE)
    /\ ~Reversal => \A i \in 1..Len(qOut.orders) : qOut.orders[i].kind = "open"
\* a reversal has returned after an accepted close order of the held amount
\* and an open order of another quantity
C34_Witness ==
    /\ Reversal
    /\ ExecReturned
    /\ Len(qOut.orders) = 2
    /\ qOut.orders[1].quantity # qOut.orders[2].quantity

\* the total an add-on order would bring the held amount to
NewTotal == Add(qIn.current_position.v.amount, qIn.trade_amount)

\* C35: on a signal in the direction of the held position an order is placed
\* only if held amount + trade_amount <= max_position; otherwise the call
\* places no order and returns a Hold result with amount 0, so an accepted
\* add-on order leaves the held amount at or below max_position.
C35_AddOnWithinMaxPosition ==
    AddOn =>
        /\ qOut.orders # <<>> =>
              /\ Le(NewTotal, qIn.max_position)
              /\ qOut.orders = <<Order("open", OpenSide(qIn.signal), qIn.trade_amount,
                                       qOut.orders[1].accepted)>>
        /\ (Gt(NewTotal, qIn.max_position) /\ qOut.pc # "start") =>
              /\ qOut.pc = "ok"
              /\ qOut.orders = <<>>
              /\ qOut.result = TradeResult("Hold", Zero)
        /\ (Le(NewTotal, qIn.max_position) /\ qOut.pc = "ok") =>
              /\ qOut.orders # <<>>
              /\ qOut.orders[1].accepted
              /\ qOut.result = TradeResult(OpenAction(qIn.signal), qIn.trade_amount)
\* an add-on order that brings the held amount exactly to max_position has
\* been accepted
C35_Witness ==
    /\ AddOn
    /\ qOut.pc = "ok"
    /\ NewTotal = qIn.max_position
    /\ Len(qOut.orders) = 1
    /\ qOut.orders[1].accepted

\* the stream task is between two sessions: no connection is open
Disconnected == stream.pc \in {"sleep", "listen_key", "seed", "connect"}

\* C36: the snapshot cell never goes back to empty, every write stores a
\* snapshot, and a get_account_info call made while the cell holds a value
\* returns that value at once, without a wait and without a direct query,
\* whatever the stream task is doing.
C36_CellNeverEmptied ==
    /\ [][IsSome(sender) => IsSome(sender')]_vars
    /\ [][sender' # sender => IsSome(sender')]_vars
    /\ [](IsSome(sender) => onceCell = "Set")
    /\ [][\A c \in Callers :
            (Call(c) /\ IsSome(sender)) =>
                caller'[c] = [IdleCaller EXCEPT !.pc = "done", !.seen = sender,
                                               !.ret = sender]]_vars
\* the stream task has failed at least twice in a row and is sleeping; the
\* cell holds a value and a call that found it has returned it
C36_Witness ==
    /\ stream.pc = "sleep"
    /\ stream.streak >= 2
    /\ IsSome(sender)
    /\ \E c \in Callers :
          /\ caller[c].pc = "done"
          /\ caller[c].seen = sender
          /\ caller[c].ret = sender
          /\ caller[c].net = 0

C38_IdempotentOnAccepted ==
    qOut.tag = "Again" => qOut.second = Some(qOut.first)

\* the entries of the plan that name s, and the symbols of execution_futures
EntriesOf(s) == { i \in 1..Len(plan.allocations) : plan.allocations[i].symbol = s }
FutureSymbols == { plan.futures[i] : i \in 1..Len(plan.futures) }

\* C39: at most one Phase-3 task exists per symbol per cycle: a symbol listed
\* more than once gets a task only for its first entry, and an entry for a
\* symbol without a Phase-1 analysis gets no task and no order.
C39_OneTaskPerSymbol ==
    plan # NoPlan =>
        /\ \A i, j \in 1..Len(plan.futures) : plan.futures[i] = plan.futures[j] => i = j
        /\ FutureSymbols \subseteq Symbols
        /\ \A s \in Symbols :
              /\ t3[s].pc # "none" <=> s \in FutureSymbols
              /\ t3[s].pc # "none" =>
                    /\ ~Excluded(AllocOf(s))
                    /\ t3[s].allocated_balance = AllocOf(s).allocated_balance
                    /\ t3[s].max_amount = MaxAmount(AllocOf(s), constraints_map[s])
              /\ (Listed(s) /\ Excluded(AllocOf(s))) => t3[s] = NoTask
              /\ t3[s].pc = "none" => t3[s].orders = <<>>
        /\ Len(plan.futures) <= Cardinality(Symbols)
\* a plan that lists one symbol twice with different entries and nothing else:
\* the cycle has ended with an accepted order of the single task, started from
\* the first entry
C39_Witness ==
    /\ cyclePc = "ret_ok"
    /\ \E s \in Symbols :
          /\ Cardinality(EntriesOf(s)) = 2
          /\ plan.allocations[1] # plan.allocations[2]
          /\ plan.futures = <<s>>
          /\ OrderAccepted(s)

\* C40: after a cycle that returned Ok the cache holds an entry for every
\* configured symbol, also for one the plan omitted; the entry of a symbol
\* whose Phase-3 task returned Err is (None, None, false), and in the next
\* cycle such an entry makes the analysis query the position.
C40_EntryForEverySymbol ==
    /\ [](cyclePc = "ret_ok" =>
            \A s \in Symbols :
                /\ symbols_cache[s] # Absent
                /\ t3[s].pc = "err" => symbols_cache[s] = Entry(None, None, FALSE)
                /\ ~Listed(s) => symbols_cache[s] = NotExecuted(p1[s].position))
    /\ [][(cyclePc = "ret_ok" /\ cyclePc' = "idle") => symbols_cache' = symbols_cache]_vars
    /\ [][StartCycle =>
            \A s \in Symbols :
                symbols_cache[s] = Entry(None, None, FALSE) =>
                    ~p1'[s].use_cache /\ p1'[s].position = None]_vars
    /\ [][\A s \in Symbols :
            (FetchKlines(s, "ok") /\ symbols_cache[s] = Entry(None, None, FALSE)) =>
                p1'[s].pc = "position"]_vars
\* the first cycle has returned Ok with a task that failed after its order was
\* accepted and a symbol that the plan does not list; both have an entry
C40_Witness ==
    /\ cyclePc = "ret_ok"
    /\ cycles < MaxCycles
    /\ \E s \in Symbols :
          /\ t3[s].pc = "err"
          /\ OrderAccepted(s)
          /\ symbols_cache[s] = Entry(None, None, FALSE)
          /\ \E b \in Symbols \ {s} : ~Listed(b) /\ symbols_cache[b] # Absent
====
